---- MODULE Spec2Model ----
(***************************************************************************)
(* Reconciliation engine of the Notebook controller.                       *)
(*                                                                         *)
(* One Notebook key (NbName in NbNamespace) is reconciled by passes of     *)
(* NotebookReconciler.Reconcile.  A pass is a sequence of steps, one per   *)
(* block of the handler, each made of the store calls of that block; the   *)
(* object store, the pod, the clock and the other writers of the store are *)
(* the environment.  Another writer of the Notebook may act between any    *)
(* two steps.  A pass reads each child and the pod once and the clock at   *)
(* its end, so a change to one of them during a pass is the same as the    *)
(* change before or after the pass: those act between passes.             *)
(*                                                                         *)
(* Spec lets a pass begin for the Notebook key or an event key at any     *)
(* time, which covers every content of the work queue.  EventSpec is the  *)
(* watch on events: a notification is put to the event predicate, whose   *)
(* verdict is kept in `enqueued` until the store changes.                 *)
(* StartingSpec starts from a Notebook whose container is waiting,        *)
(* SynthSpec runs passes over Notebooks of varied labels and annotations, *)
(* QuietSpec lets only fault-free passes and the clock act, under weak    *)
(* fairness of the pass, SameKeySpec has an event stored under the        *)
(* Notebook's own key, and RouteSpec puts generateIngress to Notebooks of *)
(* several names and namespaces.                                          *)
(***************************************************************************)
EXTENDS Integers, Sequences, FiniteSets, TLC

(***************************************************************************)
(* Bounds of the model.                                                    *)
(***************************************************************************)
\* The writes of the other actors in a behaviour.
MaxExt == 1
\* The culling counter up to which the store may fail the Update that culls.
MaxCulls == 1
\* The last tick of the clock.
MaxClock == 1

(***************************************************************************)
(* Program constants.                                                      *)
(***************************************************************************)
DefaultContainerPort == 8888
DefaultServingPort == 80
HttpsServingPort == 443
DefaultFSGroup == 100
GatekeeperPort == 3000
PrefixEnvVar == "NB_PREFIX"
AnnotationRewriteURI == "notebooks.kubeflow.org/http-rewrite-uri"
AnnotationHeadersRequestSet == "notebooks.kubeflow.org/http-headers-request-set"

\* pkg/culler: the annotation keys and the idle-timeout configuration.
STOP_ANNOTATION == "kubeflow-resource-stopped"
LAST_ACTIVITY_ANNOTATION == "notebooks.kubeflow.org/last-activity"
IdleTime == 1

\* The request key of the passes, and the configuration read from the environment.
NbName == "nb1"
NbNamespace == "team-a"
ClaimName == "claim1"
ClaimSize == "10Gi"
CustomDomain == "example.com"

\* A store lookup that finds nothing, and the nil pointer.
NoObj == [absent |-> TRUE]
Nil == [addr |-> "nil"]

Kinds == {"pvc", "sts", "svc", "ing", "cert", "vs"}

(***************************************************************************)
(* Go values.                                                              *)
(***************************************************************************)
\* m[k] of a Go map: the zero value "" for a missing key.
MapGet(m, k) == IF k \in DOMAIN m THEN m[k] ELSE ""

EmptyMap == [k \in {} |-> ""]

\* delete(m, k)
MapDelete(m, k) == [x \in (DOMAIN m) \ {k} |-> m[x]]

\* m[k] = v
MapSet(m, k, v) == [x \in (DOMAIN m) \cup {k} |-> IF x = k THEN v ELSE m[x]]

\* A pointer: the allocation it points to, and the value stored there.
\* Two pointers are == exactly when they point to the same allocation.
Ptr(addr, val) == [addr |-> addr, val |-> val]

PtrEq(p, q) == p.addr = q.addr

(***************************************************************************)
(* pkg/culler.                                                             *)
(***************************************************************************)
StopAnnotationIsSet(meta) == STOP_ANNOTATION \in DOMAIN meta.annotations

\* Timestamps are kept in annotations as text.
Times == 0 .. (MaxClock + 1)

FormatTime(t) == "T+" \o ToString(t)

TimeParses(text) == \E t \in Times : FormatTime(t) = text

ParseTime(text) == CHOOSE t \in Times : FormatTime(t) = text

notebookIsIdle(meta, t) ==
    /\ LAST_ACTIVITY_ANNOTATION \in DOMAIN meta.annotations
    /\ TimeParses(meta.annotations[LAST_ACTIVITY_ANNOTATION])
    /\ t - ParseTime(meta.annotations[LAST_ACTIVITY_ANNOTATION]) >= IdleTime

NotebookNeedsCulling(meta, t) ==
    IF StopAnnotationIsSet(meta) THEN FALSE ELSE notebookIsIdle(meta, t)

SetStopAnnotation(meta, t) ==
    [meta EXCEPT !.annotations = MapSet(@, STOP_ANNOTATION, FormatTime(t))]

(***************************************************************************)
(* Configuration read from the process environment.                        *)
(***************************************************************************)
ClientSecret == "client-secret"
DiscoveryUrl == "https://hyperauth/auth/realms/tmax"
GatekeeperVersion == "v1.0.2"
LogLevel == "info"
IsClosed == "false"
RegistryName == "registry.local/"
AddFsGroup == "true"
ClusterDomain == "cluster.local"
IstioGateway == "kubeflow/kubeflow-gateway"

Images == {"jupyter:1", "jupyter:2"}

(***************************************************************************)
(* The Notebook as its owner creates it: one container, one volume claim,  *)
(* no annotations, empty status.                                           *)
(***************************************************************************)
ZeroContainerState == [Waiting |-> Nil, Running |-> Nil, Terminated |-> Nil]

NewNotebook(image) ==
    [name |-> NbName, namespace |-> NbNamespace,
     annotations |-> EmptyMap, labels |-> EmptyMap,
     spec |-> [template |-> [spec |->
                  [containers |-> << [name |-> NbName, image |-> image,
                                      workingDir |-> "", ports |-> <<>>, env |-> <<>>,
                                      volumeMounts |-> <<>>, args |-> <<>>] >>,
                   volumes |-> <<>>,
                   securityContext |-> Nil]],
               volumeClaim |-> << [name |-> ClaimName, size |-> ClaimSize,
                                   storageClass |-> ""] >>],
     status |-> [readyReplicas |-> 0, containerState |-> ZeroContainerState,
                 conditions |-> <<>>]]

\* The pointers of an object decoded from (or encoded for) the store live in
\* the allocation `a` of the object they were decoded into.
StateAt(cs, a) ==
    [f \in {"Waiting", "Running", "Terminated"} |->
        IF cs[f] = Nil THEN Nil ELSE Ptr(a, cs[f].val)]

NotebookAt(n, a) ==
    [n EXCEPT !.status.containerState = StateAt(@, a)]

StatefulSetAt(o, a) == [o EXCEPT !.spec.replicas = Ptr(a, @.val)]

PodAt(p, a) ==
    [p EXCEPT !.status.containerStatuses =
        [i \in DOMAIN @ |-> [state |-> StateAt(@[i].state, a)]]]

\* ctrl.SetControllerReference(owner, obj, scheme)
SetControllerReference(owner, obj) == [obj EXCEPT !.owner = owner.name]

(***************************************************************************)
(* Desired-state synthesizers.                                             *)
(***************************************************************************)
generatePersistentVolumeClaim(instance) ==
    LET storageclass == instance.spec.volumeClaim[1].storageClass
        base == [name |-> instance.spec.volumeClaim[1].name,
                 namespace |-> instance.namespace,
                 owner |-> "",
                 labels |-> [k \in {"notebook"} |-> instance.name],
                 accessModes |-> << "ReadWriteMany" >>,
                 size |-> instance.spec.volumeClaim[1].size,
                 storageClassName |-> Nil]
    IN  IF storageclass # ""
        THEN [base EXCEPT !.storageClassName = [val |-> storageclass]]
        ELSE base

HasEnv(env, name) == \E i \in DOMAIN env : env[i].name = name

setPrefixEnvVar(instance, container) ==
    LET prefix == "/notebook/" \o instance.namespace \o "/" \o instance.name
    IN  IF HasEnv(container.env, PrefixEnvVar)
        \* envVar is the loop's copy of the element: the assignment is lost
        THEN container
        ELSE [container EXCEPT !.env = Append(@, [name |-> PrefixEnvVar, value |-> prefix])]

GatekeeperArgs ==
    << "--client-id=notebook-gatekeeper",
       "--client-secret=" \o ClientSecret,
       "--listen=:3000",
       "--upstream-url=http://127.0.0.1:8888",
       "--discovery-url=" \o DiscoveryUrl,
       "--secure-cookie=false",
       "--upstream-keepalives=false",
       "--skip-openid-provider-tls-verify=true",
       "--skip-upstream-tls-verify=true",
       "--tls-cert=/etc/secrets/tls.crt",
       "--tls-private-key=/etc/secrets/tls.key",
       "--tls-ca-certificate=/etc/secrets/ca.crt",
       "--enable-self-signed-tls=false",
       "--enable-refresh-tokens=true",
       "--enable-default-deny=true",
       "--enable-metrics=true",
       "--encryption-key=AgXa7xRcoClDEU0ZDSH4X0XhL5Qy2Z2j",
       "--resources=uri=/*|roles=notebook-gatekeeper:notebook-gatekeeper-manager",
       "--log-level=" \o LogLevel >>

GatekeeperContainer ==
    [name |-> "gatekeeper",
     image |-> IF IsClosed = "true"
               THEN RegistryName \o "docker.io/tmaxcloudck/gatekeeper:" \o GatekeeperVersion
               ELSE "docker.io/tmaxcloudck/gatekeeper:" \o GatekeeperVersion,
     workingDir |-> "",
     ports |-> << [name |-> "service", containerPort |-> GatekeeperPort, protocol |-> ""] >>,
     env |-> <<>>,
     volumeMounts |-> << [name |-> "secret", mountPath |-> "/etc/secrets"] >>,
     args |-> GatekeeperArgs]

NotebookArgs ==
    << "sh", "-c",
       "update-ca-certificates && jupyter lab --notebook-dir=/home/${NB_USER} --ip=0.0.0.0 --no-browser --allow-root --port=8888 --NotebookApp.token='' --NotebookApp.password='' --NotebookApp.allow_origin='*' --NotebookApp.base_url=${NB_PREFIX}" >>

\* The primary container of the pod template, as generateStatefulSet has set
\* it through `container` when it appends the gatekeeper.
PrimaryContainer(instance) ==
    LET c0 == instance.spec.template.spec.containers[1]
        c1 == IF c0.workingDir = "" THEN [c0 EXCEPT !.workingDir = "/home/jovyan"] ELSE c0
        c2 == IF c1.ports = <<>>
              THEN [c1 EXCEPT !.ports = << [name |-> "notebook-port",
                                            containerPort |-> DefaultContainerPort,
                                            protocol |-> "TCP"] >>]
              ELSE c1
        c3 == [c2 EXCEPT !.volumeMounts =
                  Append(@, [name |-> "secret",
                             mountPath |-> "/usr/local/share/ca-certificates"])]
    IN  IF c3.args = <<>> THEN [c3 EXCEPT !.args = NotebookArgs] ELSE c3

\* The two arrays of containers at the end of generateStatefulSet.  DeepCopy
\* makes podSpec.Containers with capacity = length, so appending the
\* gatekeeper copies the elements into a new array, which the workload keeps;
\* `container` still points into the array of before, and that is where
\* setPrefixEnvVar writes afterwards.
ContainerArrays(instance) ==
    LET before == << PrimaryContainer(instance) >>
                  \o Tail(instance.spec.template.spec.containers)
    IN  [pointed |-> [before EXCEPT ![1] = setPrefixEnvVar(instance, @)],
         kept |-> Append(before, GatekeeperContainer)]

\* The workload generateStatefulSet builds once it has chosen the replicas.
StatefulSetOf(instance, replicas) ==
    LET base == [k \in {"statefulset", "notebook-name"} |-> instance.name]
        \* the Notebook's labels are copied over the two fixed ones
        l == [k \in (DOMAIN base) \cup (DOMAIN instance.labels) |->
                 IF k \in DOMAIN instance.labels THEN instance.labels[k] ELSE base[k]]
        podSpec == instance.spec.template.spec
        containers == ContainerArrays(instance).kept
        volumes == Append(podSpec.volumes,
                          [name |-> "secret",
                           secretName |-> instance.name \o "-secret",
                           defaultMode |-> 511])
        securityContext ==
            IF AddFsGroup = "true" /\ podSpec.securityContext = Nil
            THEN [fsGroup |-> DefaultFSGroup]
            ELSE podSpec.securityContext
    IN  [name |-> instance.name, namespace |-> instance.namespace,
         owner |-> "",
         labels |-> EmptyMap, annotations |-> EmptyMap,
         spec |-> [replicas |-> Ptr("ss", replicas),
                   selector |-> [k \in {"statefulset"} |-> instance.name],
                   template |->
                      [annotations |-> [k \in {"sidecar.istio.io/inject"} |-> "false"],
                       labels |-> l,
                       spec |-> [containers |-> containers,
                                 volumes |-> volumes,
                                 securityContext |-> securityContext]]],
         status |-> [readyReplicas |-> 0]]

\* generateStatefulSet with the replicas left at 1 whatever the annotations.
generateStatefulSet_NeverStops(instance) == StatefulSetOf(instance, 1)

\* generateStatefulSet looking up the last-activity key for the stop marker.
generateStatefulSet_WrongKey(instance) ==
    StatefulSetOf(instance,
                  IF LAST_ACTIVITY_ANNOTATION \in DOMAIN instance.annotations THEN 0 ELSE 1)

generateStatefulSet(instance) ==
    StatefulSetOf(instance, IF StopAnnotationIsSet(instance) THEN 0 ELSE 1)

generateService(instance) ==
    [name |-> instance.name, namespace |-> instance.namespace,
     owner |-> "",
     labels |-> EmptyMap,
     annotations |-> [k \in {"traefik.ingress.kubernetes.io/service.serverstransport"}
                         |-> "insecure@file"],
     spec |-> [type |-> "ClusterIP",
               selector |-> [k \in {"statefulset"} |-> instance.name],
               ports |-> << [name |-> "https-" \o instance.name,
                             port |-> HttpsServingPort,
                             targetPort |-> GatekeeperPort,
                             protocol |-> "TCP"] >>,
               clusterIP |-> ""]]

ingressName(kfName, namespace) == kfName \o "-" \o namespace

generateIngress(instance) ==
    LET name == instance.name
        namespace == instance.namespace
        host == ingressName(name, namespace) \o "." \o CustomDomain
    IN  [name |-> ingressName(name, namespace), namespace |-> namespace,
         owner |-> "",
         annotations |->
            [k \in {"traefik.ingress.kubernetes.io/router.entrypoints",
                    "cert-manager.io/cluster-issuer"} |->
                IF k = "cert-manager.io/cluster-issuer" THEN "tmaxcloud-issuer"
                ELSE "websecure"],
         labels |-> [k \in {"ingress.tmaxcloud.org/name"} |-> ingressName(name, namespace)],
         spec |-> [ingressClassName |-> "tmax-cloud",
                   tls |-> << [hosts |-> << host >>] >>,
                   rules |-> << [host |-> host,
                                 paths |-> << [path |-> "/", pathType |-> "Prefix",
                                               backend |-> [service |->
                                                  [name |-> instance.name,
                                                   port |-> [number |-> 443]]]] >>] >>]]

\* The name built in the order of ingressName.
certificateName_NameFirst(kfName, namespace) == "cert-" \o kfName \o "-" \o namespace

certificateName(kfName, namespace) == "cert-" \o namespace \o "-" \o kfName

generateCertificate(instance) ==
    LET name == instance.name
        namespace == instance.namespace
    IN  [name |-> certificateName(name, namespace), namespace |-> namespace,
         owner |-> "",
         spec |-> [secretName |-> name \o "-secret",
                   isCA |-> FALSE,
                   dnsNames |-> << "tmax-cloud" >>,
                   usages |-> << "digital signature", "key encipherment",
                                 "server auth", "client auth" >>,
                   issuerRef |-> [group |-> "cert-manager.io",
                                  kind |-> "ClusterIssuer",
                                  name |-> "tmaxcloud-issuer"]]]

virtualServiceName(kfName, namespace) == "notebook-" \o namespace \o "-" \o kfName

\* json.Unmarshal of the header annotation into a map[string]string: the
\* annotation values of the model are the valid object below and text that
\* does not parse.
HeaderAnnotationValues == {"{\"X-User\":\"u1\"}", "{\"X-User\":1}", "not-json"}

\* A decoder that takes any text and yields a header of it.
UnmarshalHeaders_Lenient(text) ==
    [err |-> FALSE, value |-> [k \in {"X-Raw"} |-> text]]

UnmarshalHeaders(text) ==
    IF text = "{\"X-User\":\"u1\"}"
    THEN [err |-> FALSE, value |-> [k \in {"X-User"} |-> "u1"]]
    ELSE [err |-> TRUE, value |-> EmptyMap]

generateVirtualService(instance) ==
    LET name == instance.name
        namespace == instance.namespace
        prefix == "/notebook/" \o namespace \o "/" \o name \o "/"
        annotations == instance.annotations
        rewrite == IF AnnotationRewriteURI \in DOMAIN annotations
                      /\ annotations[AnnotationRewriteURI] # ""
                   THEN annotations[AnnotationRewriteURI]
                   ELSE prefix
        service == name \o "." \o namespace \o ".svc." \o ClusterDomain
        parsed == UnmarshalHeaders(MapGet(annotations, AnnotationHeadersRequestSet))
        headersRequestSet ==
            IF AnnotationHeadersRequestSet \in DOMAIN annotations
               /\ annotations[AnnotationHeadersRequestSet] # ""
               /\ ~parsed.err
            THEN parsed.value
            ELSE EmptyMap
    IN  [name |-> virtualServiceName(name, namespace), namespace |-> namespace,
         owner |-> "",
         spec |-> [hosts |-> << "*" >>,
                   gateways |-> << IstioGateway >>,
                   http |-> << [headers |-> [request |-> [set |-> headersRequestSet]],
                                match |-> << [uri |-> [prefix |-> prefix]] >>,
                                rewrite |-> [uri |-> rewrite],
                                route |-> << [destination |->
                                                [host |-> service,
                                                 port |-> [number |-> DefaultServingPort]]] >>] >>]]

(***************************************************************************)
(* Resource sync engine: the field-copy-and-compare steps.  Each gives the *)
(* fetched object with the owned fields copied in, and whether an update   *)
(* is required.                                                            *)
(***************************************************************************)
\* for k, v := range to { if from[k] != v { requireUpdate = true } }
MapDiffers(from, to) == \E k \in DOMAIN to : MapGet(from, k) # to[k]

CopyStatefulSetFields(from, to) ==
    LET replicasDiffer == ~PtrEq(from.spec.replicas, to.spec.replicas)
    IN  [requireUpdate |->
            \/ MapDiffers(from.labels, to.labels)
            \/ MapDiffers(from.annotations, to.annotations)
            \/ replicasDiffer
            \/ to.spec.template.spec # from.spec.template.spec,
         to |-> [to EXCEPT !.labels = from.labels,
                           !.annotations = from.annotations,
                           !.spec.replicas = IF replicasDiffer THEN from.spec.replicas ELSE @,
                           !.spec.template.spec = from.spec.template.spec]]

\* The copy with the whole Spec taken from the desired service.
CopyServiceFields_WholeSpec(from, to) ==
    [requireUpdate |->
        \/ MapDiffers(from.labels, to.labels)
        \/ MapDiffers(from.annotations, to.annotations)
        \/ to.spec # from.spec,
     to |-> [to EXCEPT !.labels = from.labels,
                       !.annotations = from.annotations,
                       !.spec = from.spec]]

CopyServiceFields(from, to) ==
    [requireUpdate |->
        \/ MapDiffers(from.labels, to.labels)
        \/ MapDiffers(from.annotations, to.annotations)
        \/ to.spec.selector # from.spec.selector
        \/ to.spec.ports # from.spec.ports,
     to |-> [to EXCEPT !.labels = from.labels,
                       !.annotations = from.annotations,
                       !.spec.selector = from.spec.selector,
                       !.spec.ports = from.spec.ports]]

\* The copy reporting a difference whatever it finds.
CopyIngress_AlwaysUpdates(from, to) ==
    [requireUpdate |-> TRUE,
     to |-> [to EXCEPT !.spec.tls = from.spec.tls,
                       !.spec.rules = from.spec.rules]]

CopyIngress(from, to) ==
    [requireUpdate |->
        \/ to.spec.tls # from.spec.tls
        \/ to.spec.rules # from.spec.rules,
     to |-> [to EXCEPT !.spec.tls = from.spec.tls,
                       !.spec.rules = from.spec.rules]]

\* unstructured.SetNestedMap(to.Object, fromSpec, "spec")
SetNestedSpec(to, fromSpec) ==
    [k \in (DOMAIN to) \cup {"spec"} |-> IF k = "spec" THEN fromSpec ELSE to[k]]

CopyCertificate(from, to) ==
    IF "spec" \notin DOMAIN from
    THEN [requireUpdate |-> FALSE, to |-> to]
    ELSE IF "spec" \notin DOMAIN to
    THEN [requireUpdate |-> TRUE, to |-> SetNestedSpec(to, from.spec)]
    ELSE IF from.spec # to.spec
    THEN [requireUpdate |-> TRUE, to |-> SetNestedSpec(to, from.spec)]
    ELSE [requireUpdate |-> FALSE, to |-> to]

CopyVirtualService(from, to) ==
    IF "spec" \notin DOMAIN from
    THEN [requireUpdate |-> FALSE, to |-> to]
    ELSE IF "spec" \notin DOMAIN to
    THEN [requireUpdate |-> TRUE, to |-> SetNestedSpec(to, from.spec)]
    ELSE IF from.spec # to.spec
    THEN [requireUpdate |-> TRUE, to |-> SetNestedSpec(to, from.spec)]
    ELSE [requireUpdate |-> FALSE, to |-> to]

(***************************************************************************)
(* Status/condition state machine.                                         *)
(***************************************************************************)
getNextCondition(cs, t) ==
    IF cs.Running # Nil
    THEN [type |-> "Running", lastProbeTime |-> t, reason |-> "", message |-> ""]
    ELSE IF cs.Waiting # Nil
    THEN [type |-> "Waiting", lastProbeTime |-> t,
          reason |-> cs.Waiting.val.reason, message |-> cs.Waiting.val.message]
    ELSE [type |-> "Terminated", lastProbeTime |-> t,
          reason |-> cs.Terminated.val.reason, message |-> cs.Terminated.val.reason]

\* pod.Status.ContainerStatuses[0].State != instance.Status.ContainerState:
\* == on a struct of three pointers compares the pointers.
ContainerStateDiffers(a, b) ==
    \/ ~PtrEq(a.Waiting, b.Waiting)
    \/ ~PtrEq(a.Running, b.Running)
    \/ ~PtrEq(a.Terminated, b.Terminated)

\* The history with every offered condition prepended, the head not compared.
AppendCondition_Always(oldConditions, newCondition) ==
    << newCondition >> \o oldConditions

\* The history with a new condition put behind the earlier ones.
AppendCondition_AtEnd(oldConditions, newCondition) ==
    IF \/ Len(oldConditions) = 0
       \/ oldConditions[1].type # newCondition.type
       \/ oldConditions[1].reason # newCondition.reason
       \/ oldConditions[1].message # newCondition.message
    THEN Append(oldConditions, newCondition)
    ELSE oldConditions

\* The condition history after newCondition has been offered to it.
AppendCondition(oldConditions, newCondition) ==
    IF \/ Len(oldConditions) = 0
       \/ oldConditions[1].type # newCondition.type
       \/ oldConditions[1].reason # newCondition.reason
       \/ oldConditions[1].message # newCondition.message
    THEN << newCondition >> \o oldConditions
    ELSE oldConditions

\* The error handed back as it came.
ignoreNotFound_KeepsAll(err) == err

ignoreNotFound(err) == IF err = "NotFound" THEN "" ELSE err

(***************************************************************************)
(* State.                                                                  *)
(***************************************************************************)
VARIABLES
    nb,             \* the stored Notebook under the key, or NoObj
    children,       \* the stored child object of each kind, or NoObj
    pod,            \* the stored primary pod <name>-0, or NoObj
    now,            \* the clock
    useIstio,       \* USE_ISTIO = "true"
    cullingCount,   \* Metrics.NotebookCullingCount
    ext,            \* writes of the other actors so far
    changed,        \* another actor wrote to the store since the pass began
    settled,        \* the pass before this one succeeded and nothing was written since it began
    pc,             \* position of the pass in Reconcile
    instance,       \* the Notebook as the pass holds it
    stale,          \* the stored Notebook was written by another actor since the pass read it
    ss,             \* the desired workload of the pass
    foundStateful,  \* the workload as the pass fetched it
    podFound,
    result,         \* what Reconcile returns
    calls,          \* the store calls of the pass, in the order issued
    emitted,        \* the events the pass recorded
    enqueued        \* the last watch notification of an event and its verdict

vars == << nb, children, pod, now, useIstio, cullingCount, ext, changed,
           settled, pc, instance, stale, ss, foundStateful, podFound, result,
           calls, emitted, enqueued >>

\* The zero value of appsv1.StatefulSet, as far as the pass reads it.
ZeroStatefulSet == [status |-> [readyReplicas |-> 0]]

NoResult == [requeueAfter |-> FALSE, err |-> ""]

\* The cluster-internal address the store assigns to a service.
AssignedClusterIP == "10.96.0.7"

\* The object as the store holds it after a create: a service without a
\* cluster-internal address is given one.
Admitted(kind, obj) ==
    IF kind = "svc" /\ obj.spec.clusterIP = ""
    THEN [obj EXCEPT !.spec.clusterIP = AssignedClusterIP]
    ELSE obj

\* What the synthesizers make of the Notebook n, as the store holds it once
\* a pass has written it.
DesiredChild(kind, n) ==
    CASE kind = "pvc" -> generatePersistentVolumeClaim(n)
      [] kind = "sts" ->
            StatefulSetAt(SetControllerReference(n, generateStatefulSet(n)), "store")
      [] kind = "svc" -> Admitted(kind, SetControllerReference(n, generateService(n)))
      [] kind = "ing" -> SetControllerReference(n, generateIngress(n))
      [] kind = "cert" -> SetControllerReference(n, generateCertificate(n))
      [] OTHER -> SetControllerReference(n, generateVirtualService(n))

RunningState == [ZeroContainerState EXCEPT !.Running = Ptr("store", [startedAt |-> 0])]

WaitingState ==
    [ZeroContainerState EXCEPT !.Waiting =
        Ptr("store", [reason |-> "ContainerCreating", message |-> ""])]

\* The pod the workload controller makes from the stored workload.
PodOf(sts, statuses) ==
    [name |-> sts.name \o "-0",
     labels |-> sts.spec.template.labels,
     status |-> [containerStatuses |-> statuses]]

\* The situations a behaviour starts in: a Notebook that was just created,
\* one that earlier passes brought up and that is running, and one that was
\* stopped, whose workload the pass after it scaled to zero and whose pod is
\* gone since, before the pass that mirrors the ready replicas; and one that
\* the controller culled: it carries the stop marker next to the activity
\* record the culling was decided on, and its pod is gone.
Situations == {"new", "running", "stopped", "culled"}

\* One more: a Notebook whose pod is being started, its container waiting,
\* which a pass has recorded, and whose activity was recorded at the start.
StartingSituations == {"starting"}

SituationNotebook(sit) ==
    LET n == NewNotebook("jupyter:1")
        seen == [n EXCEPT !.status.containerState = RunningState,
                          !.status.conditions =
                             << getNextCondition(RunningState, 0) >>]
    IN  CASE sit = "new" -> n
          [] sit = "running" -> [seen EXCEPT !.status.readyReplicas = 1]
          [] sit = "starting" ->
                [n EXCEPT !.annotations =
                             MapSet(@, LAST_ACTIVITY_ANNOTATION, FormatTime(0)),
                          !.status.containerState = WaitingState,
                          !.status.conditions = << getNextCondition(WaitingState, 0) >>]
          [] sit = "culled" ->
                SetStopAnnotation(
                    [seen EXCEPT !.annotations =
                                    MapSet(@, LAST_ACTIVITY_ANNOTATION, FormatTime(0))], 0)
          [] OTHER -> SetStopAnnotation([seen EXCEPT !.status.readyReplicas = 1], 0)

\* No pass has run yet and no other actor has written.
InitIdle ==
    /\ now = 0
    /\ cullingCount = 0
    /\ ext = 0
    /\ changed = FALSE
    /\ settled = FALSE
    /\ pc = "idle"
    /\ instance = NoObj
    /\ stale = FALSE
    /\ ss = NoObj
    /\ foundStateful = ZeroStatefulSet
    /\ podFound = FALSE
    /\ result = NoResult
    /\ calls = <<>>
    /\ emitted = <<>>
    /\ enqueued = NoObj

InitFrom(sits) ==
    /\ useIstio \in BOOLEAN
    /\ \E sit \in sits :
          /\ nb = SituationNotebook(sit)
          /\ children =
                [k \in Kinds |->
                    IF sit = "new" \/ (k = "vs" /\ ~useIstio) THEN NoObj
                    ELSE IF k = "sts" /\ sit = "running"
                    THEN [DesiredChild(k, nb) EXCEPT !.status.readyReplicas = 1]
                    ELSE DesiredChild(k, nb)]
          /\ pod = IF sit = "running"
                   THEN PodOf(DesiredChild("sts", nb), << [state |-> RunningState] >>)
                   ELSE IF sit = "starting"
                   THEN PodOf(DesiredChild("sts", nb), << [state |-> WaitingState] >>)
                   ELSE NoObj
    /\ InitIdle

Init == InitFrom(Situations)

\* The Notebooks the synthesizers are put to: without labels, with a label of
\* its own and with labels under the two keys the controller sets, and with
\* the header annotation absent, empty, valid and malformed.
InputNotebooks ==
    { [NewNotebook("jupyter:1") EXCEPT !.labels = l, !.annotations = a] :
        l \in { EmptyMap, [k \in {"team"} |-> "data"],
                [k \in {"statefulset", "notebook-name"} |-> "other"] },
        a \in { EmptyMap, [k \in {AnnotationHeadersRequestSet} |-> ""] }
              \cup { [k \in {AnnotationHeadersRequestSet} |-> v] :
                        v \in HeaderAnnotationValues } }

\* A Notebook of InputNotebooks over an empty store, or over the children a
\* pass made when the Notebook had neither labels nor annotations.
SynthInit ==
    /\ useIstio \in BOOLEAN
    /\ nb \in InputNotebooks
    /\ \E synced \in BOOLEAN :
          children = [k \in Kinds |->
                        IF ~synced \/ (k = "vs" /\ ~useIstio) THEN NoObj
                        ELSE DesiredChild(k, NewNotebook("jupyter:1"))]
    /\ pod = NoObj
    /\ InitIdle

StartingInit == InitFrom(StartingSituations)

(***************************************************************************)
(* Store calls.                                                            *)
(***************************************************************************)
\* One call of the pass against the store: r.Get, r.Create, r.Update or
\* r.Status().Update on an object of `kind`, with the error it returned and,
\* for a write, the controller owner the written object carried.
Call(op, kind, err, owner) == [op |-> op, kind |-> kind, err |-> err, owner |-> owner]

InPass == pc \notin {"idle", "done"}

\* A return that drops the error: return ctrl.Result{}, nil.
Return_DropsError(cs, requeue, err) ==
    /\ pc' = "done"
    /\ result' = [requeueAfter |-> requeue, err |-> ""]
    /\ calls' = cs

\* return ctrl.Result{}, err
Return(cs, requeue, err) ==
    /\ pc' = "done"
    /\ result' = [requeueAfter |-> requeue, err |-> err]
    /\ calls' = cs

\* The error of a write of the pass's copy of the Notebook: the store rejects
\* a write of a deleted object and a write based on a stale read.
NotebookWriteErr(f) ==
    IF f = "write" THEN "Internal"
    ELSE IF nb = NoObj THEN "NotFound"
    ELSE IF stale THEN "Conflict"
    ELSE ""

(***************************************************************************)
(* Event correlation.                                                      *)
(***************************************************************************)
PodName == NbName \o "-0"
EventKey == "nb1-0.16a3f"
Requests == {NbName, EventKey}

\* A pod of another workload in the namespace: no notebook-name label.
OtherPod ==
    [name |-> "db-0",
     labels |-> [k \in {"app"} |-> "db"],
     status |-> [containerStatuses |-> <<>>]]

\* The pod the store holds under a name, or NoObj.
StoredPod(name) ==
    IF pod # NoObj /\ pod.name = name THEN pod
    ELSE IF name = OtherPod.name THEN OtherPod
    ELSE NoObj

InvolvedObjects ==
    { [kind |-> "StatefulSet", name |-> NbName, namespace |-> NbNamespace],
      [kind |-> "Pod", name |-> PodName, namespace |-> NbNamespace],
      [kind |-> "Pod", name |-> OtherPod.name, namespace |-> NbNamespace],
      [kind |-> "ConfigMap", name |-> "cm1", namespace |-> NbNamespace] }

\* The event the cluster records about an object.
EventAbout(o) ==
    IF o.kind = "StatefulSet"
    THEN [type |-> "Normal", reason |-> "SuccessfulCreate",
          message |-> "create Pod " \o o.name \o "-0 successful",
          involvedObject |-> o]
    ELSE [type |-> "Warning", reason |-> "FailedScheduling",
          message |-> "0/3 nodes", involvedObject |-> o]

EventObjects == { EventAbout(o) : o \in InvolvedObjects }

isStsOrPodEvent(event) ==
    event.involvedObject.kind = "Pod" \/ event.involvedObject.kind = "StatefulSet"

\* c.Get of the pod an event is about.
GetPodErr(object, f) ==
    IF f = "getPod" THEN "Internal"
    ELSE IF StoredPod(object.name) = NoObj THEN "NotFound"
    ELSE ""

nbNameFromInvolvedObject(object, f) ==
    IF object.kind = "StatefulSet"
    THEN [name |-> object.name, err |-> ""]
    ELSE IF object.kind = "Pod" /\ GetPodErr(object, f) # ""
    THEN [name |-> "", err |-> GetPodErr(object, f)]
    ELSE IF object.kind = "Pod"
            /\ "notebook-name" \in DOMAIN StoredPod(object.name).labels
    THEN [name |-> StoredPod(object.name).labels["notebook-name"], err |-> ""]
    ELSE [name |-> "", err |-> "Unrelated"]

\* The store calls nbNameFromInvolvedObject issues.
InvolvedObjectCalls(object, f) ==
    IF object.kind = "Pod"
    THEN << Call("get", "pod", GetPodErr(object, f), "") >>
    ELSE <<>>

\* r.Get of a Notebook by name.
GetNotebookErr(name, f) ==
    IF f = "getNotebook" THEN "Internal"
    ELSE IF nb = NoObj \/ name # NbName THEN "NotFound"
    ELSE ""

\* nbNameExists answering false whenever the lookup fails.
nbNameExists_FalseOnError(nbName, f) == GetNotebookErr(nbName, f) = ""

nbNameExists(nbName, f) ==
    LET err == GetNotebookErr(nbName, f)
    IN  IF err # "" THEN err # "NotFound" ELSE TRUE

\* The filter letting an event through when its Notebook cannot be resolved.
checkEvent_AcceptsOnError(event, f) ==
    LET r == nbNameFromInvolvedObject(event.involvedObject, f)
    IN  IF r.err # "" THEN TRUE
        ELSE isStsOrPodEvent(event) /\ nbNameExists(r.name, f)

\* checkEvent of predNBEvents: the filter of create, update and generic
\* notifications.
checkEvent(event, f) ==
    LET r == nbNameFromInvolvedObject(event.involvedObject, f)
    IN  IF r.err # "" THEN FALSE
        ELSE isStsOrPodEvent(event) /\ nbNameExists(r.name, f)

\* The event object the recorder stores for a re-emission: Eventf is given
\* the Notebook, so the event is about an object of kind Notebook.
RecordedEvent(em) ==
    [type |-> em.type, reason |-> em.reason, message |-> em.message,
     involvedObject |-> [kind |-> "Notebook", name |-> em.object,
                         namespace |-> NbNamespace]]

\* The notifications a watch delivers.
Notifications == {"create", "update", "delete", "generic"}

\* predicate.NewPredicateFuncs(checkEvent()) with DeleteFunc replaced.
predNBEvents(op, event, f) ==
    IF op = "delete" THEN FALSE ELSE checkEvent(event, f)

\* eventsPredicates of controllers/notebook_controller.go: predicate.Funcs
\* with a CreateFunc and an UpdateFunc only, both the filter above (the old
\* and the new object of an update are two objects); Funcs answers true to a
\* notification it holds no function for.
eventsPredicates(op, event, f) ==
    IF op \in {"create", "update"} THEN checkEvent(event, f) ELSE TRUE

\* The two registrations of the watch on events the repository holds.
Registrations == {"predNBEvents", "eventsPredicates"}

\* The watch on events delivers a notification while no pass is running:
\* the predicate of the registration decides whether the event's key is
\* enqueued.
Notify(reg, op, event, f) ==
    /\ pc = "idle"
    /\ f \in {"none", "getPod", "getNotebook"}
    /\ f = "getPod" => (op # "delete" /\ event.involvedObject.kind = "Pod")
    /\ f = "getNotebook" =>
          (op # "delete" /\ nbNameFromInvolvedObject(event.involvedObject, f).err = "")
    /\ enqueued' = [predicate |-> reg, op |-> op, event |-> event, fault |-> f,
                    accepted |-> IF reg = "predNBEvents"
                                 THEN predNBEvents(op, event, f)
                                 ELSE eventsPredicates(op, event, f)]
    /\ UNCHANGED << nb, children, pod, now, useIstio, cullingCount, ext, changed,
                    settled, pc, instance, stale, ss, foundStateful, podFound,
                    result, calls, emitted >>

\* The message with the kind of the subject as the event spells it.
ReissuedMessage_KeepsCase(event) ==
    "Reissued from " \o event.involvedObject.kind
    \o "/" \o event.involvedObject.name \o ": " \o event.message

\* fmt.Sprintf("Reissued from %s/%s: %s", strings.ToLower(Kind), Name, Message)
ReissuedMessage(event) ==
    "Reissued from " \o
    (IF event.involvedObject.kind = "StatefulSet" THEN "statefulset"
     ELSE IF event.involvedObject.kind = "Pod" THEN "pod"
     ELSE "configmap")
    \o "/" \o event.involvedObject.name \o ": " \o event.message

(***************************************************************************)
(* Reconcile: the lookup of the request key.                               *)
(***************************************************************************)
\* A pass begins: nothing of the pass before it is kept.
BeginPass ==
    /\ pc \in {"idle", "done"}
    /\ changed' = FALSE
    /\ settled' = (pc = "done" /\ result.err = "" /\ instance # NoObj /\ ~changed)
    /\ stale' = FALSE
    /\ ss' = NoObj
    /\ foundStateful' = ZeroStatefulSet
    /\ podFound' = FALSE
    /\ UNCHANGED << nb, children, pod, now, useIstio, cullingCount, ext, enqueued >>

\* The request key holds an event: re-emit it under its Notebook.
ReconcileEvent(req, event, f) ==
    /\ BeginPass
    /\ f \in {"none", "getPod", "getNotebook"}
    /\ f = "getPod" => event.involvedObject.kind = "Pod"
    /\ instance' = NoObj
    /\ LET r == nbNameFromInvolvedObject(event.involvedObject, f)
           c1 == << Call("get", "event", "", "") >>
                 \o InvolvedObjectCalls(event.involvedObject, f)
           nerr == GetNotebookErr(r.name, f)
           c2 == Append(c1, Call("get", "nb", nerr, ""))
       IN  IF r.err # ""
           THEN /\ f # "getNotebook"
                /\ Return(c1, FALSE, r.err)
                /\ emitted' = <<>>
           ELSE IF nerr # ""
           THEN /\ Return(c2, FALSE, ignoreNotFound(nerr))
                /\ emitted' = <<>>
           ELSE /\ Return(c2, FALSE, "")
                /\ emitted' = << [object |-> r.name, type |-> event.type,
                                  reason |-> event.reason,
                                  message |-> ReissuedMessage(event)] >>

\* The request key holds no event: fetch the Notebook.
ReconcileNotebook(req, f) ==
    /\ BeginPass
    /\ f \in {"none", "getEvent", "getNotebook"}
    /\ emitted' = <<>>
    /\ LET nerr == GetNotebookErr(req, f)
           c1 == << Call("get", "event", "NotFound", "") >>
           c2 == Append(c1, Call("get", "nb", nerr, ""))
       IN  IF f = "getEvent"
           THEN /\ Return(<< Call("get", "event", "Internal", "") >>, FALSE, "Internal")
                /\ instance' = NoObj
           ELSE IF nerr # ""
           THEN /\ Return(c2, FALSE, ignoreNotFound(nerr))
                /\ instance' = NoObj
           ELSE /\ pc' = "pvc"
                /\ result' = NoResult
                /\ calls' = c2
                /\ instance' = NotebookAt(nb, "instance")

(***************************************************************************)
(* Reconcile: the child kinds, in the order of the handler.                *)
(***************************************************************************)
\* The blocks with the service reconciled before the workload.
After_ServiceFirst(step) ==
    CASE step = "pvc" -> "svc"
      [] step = "svc" -> "sts"
      [] step = "sts" -> "ing"
      [] step = "ing" -> "cert"
      [] step = "cert" -> IF useIstio THEN "vs" ELSE "status"
      [] step = "vs" -> "status"
      [] step = "status" -> "pod"
      [] step = "pod" -> "cull"
      [] OTHER -> "done"

\* The block of Reconcile that follows the block `step`.
After(step) ==
    CASE step = "pvc" -> "sts"
      [] step = "sts" -> "svc"
      [] step = "svc" -> "ing"
      [] step = "ing" -> "cert"
      [] step = "cert" -> IF useIstio THEN "vs" ELSE "status"
      [] step = "vs" -> "status"
      [] step = "status" -> "pod"
      [] step = "pod" -> "cull"
      [] OTHER -> "done"

\* A block ends without returning: the pass goes on with the next block.
Continue(step, cs) ==
    /\ pc' = After(step)
    /\ calls' = cs
    /\ UNCHANGED result

\* The sync that goes on without creating a child it did not find.
SyncChild_NoCreate(kind, desired, copied, f) ==
    LET found == children[kind]
        got == Append(calls, Call("get", kind, IF found = NoObj THEN "NotFound" ELSE "", ""))
    IN  /\ f = "none"
        /\ Continue(kind, got)
        /\ UNCHANGED children

\* Fetch the child by name; create it when absent; otherwise update it when
\* copying the owned fields into the fetched object changed one of them:
\* `copied` is what the copy function of the kind made of the fetched object.
\* f is the call the store fails, if any.
\* The sync that also updates the child it has just created.
SyncChild_UpdatesCreated(kind, desired, copied, f) ==
    LET found == children[kind]
        got == Append(calls, Call("get", kind, IF found = NoObj THEN "NotFound" ELSE "", ""))
    IN  /\ f = "none"
        /\ IF found = NoObj
           THEN /\ children' = [children EXCEPT ![kind] = Admitted(kind, desired)]
                /\ Continue(kind, got \o << Call("create", kind, "", desired.owner),
                                            Call("update", kind, "", desired.owner) >>)
           ELSE /\ Continue(kind, got)
                /\ UNCHANGED children

SyncChild(kind, desired, copied, f) ==
    LET found == children[kind]
        got == Append(calls, Call("get", kind, IF found = NoObj THEN "NotFound" ELSE "", ""))
    IN  IF f = "get"
        THEN /\ Return(Append(calls, Call("get", kind, "Internal", "")), FALSE, "Internal")
             /\ UNCHANGED children
        ELSE IF found = NoObj
        THEN IF f = "write"
             THEN /\ Return(Append(got, Call("create", kind, "Internal", desired.owner)),
                            FALSE, "Internal")
                  /\ UNCHANGED children
             ELSE /\ children' = [children EXCEPT ![kind] = Admitted(kind, desired)]
                  /\ Continue(kind, Append(got, Call("create", kind, "", desired.owner)))
        ELSE LET r == copied
             IN  IF ~r.requireUpdate
                 THEN /\ f = "none"
                      /\ Continue(kind, got)
                      /\ UNCHANGED children
                 ELSE IF f = "write"
                 THEN /\ Return(Append(got, Call("update", kind, "Internal", r.to.owner)),
                                FALSE, "Internal")
                      /\ UNCHANGED children
                 ELSE /\ children' = [children EXCEPT ![kind] = r.to]
                      /\ Continue(kind, Append(got, Call("update", kind, "", r.to.owner)))

\* An existing volume claim brought to the desired one where they differ.
KeepFound_CopiesDesired(from, to) ==
    [requireUpdate |-> to # NoObj /\ from # to, to |-> from]

\* An existing volume claim is left as it is.
KeepFound(from, to) == [requireUpdate |-> FALSE, to |-> to]

\* The call of a block that the store fails (a timeout, a server error), if any.
Faults == {"none", "get", "write"}

passFrame == << nb, pod, now, useIstio, cullingCount, ext, changed,
                settled, instance, stale, podFound, emitted, enqueued >>

StepPvc(f) ==
    /\ pc = "pvc"
    /\ LET pvc == generatePersistentVolumeClaim(instance)
       IN  SyncChild("pvc", pvc, KeepFound(pvc, children["pvc"]), f)
    /\ UNCHANGED << passFrame, ss, foundStateful >>

StepSts(f) ==
    /\ pc = "sts"
    /\ LET desired == SetControllerReference(instance, generateStatefulSet(instance))
           CopyFetched(from, to) ==
               LET r == CopyStatefulSetFields(from, StatefulSetAt(to, "foundStateful"))
               IN  [requireUpdate |-> r.requireUpdate, to |-> StatefulSetAt(r.to, "store")]
       IN  /\ ss' = desired
           /\ SyncChild("sts", StatefulSetAt(desired, "store"),
                        CopyFetched(desired, children["sts"]), f)
           /\ foundStateful' =
                 IF f = "get" \/ children["sts"] = NoObj
                 THEN ZeroStatefulSet
                 ELSE CopyFetched(desired, children["sts"]).to
    /\ UNCHANGED passFrame

StepSvc(f) ==
    /\ pc = "svc"
    /\ LET service == SetControllerReference(instance, generateService(instance))
       IN  SyncChild("svc", service, CopyServiceFields(service, children["svc"]), f)
    /\ UNCHANGED << passFrame, ss, foundStateful >>

\* reconcileIngress
StepIng(f) ==
    /\ pc = "ing"
    /\ LET ingress == SetControllerReference(instance, generateIngress(instance))
       IN  SyncChild("ing", ingress, CopyIngress(ingress, children["ing"]), f)
    /\ UNCHANGED << passFrame, ss, foundStateful >>

\* reconcileCertificate
StepCert(f) ==
    /\ pc = "cert"
    /\ LET certificate == SetControllerReference(instance, generateCertificate(instance))
       IN  SyncChild("cert", certificate,
                     CopyCertificate(certificate, children["cert"]), f)
    /\ UNCHANGED << passFrame, ss, foundStateful >>

\* reconcileVirtualService
StepVs(f) ==
    /\ pc = "vs"
    /\ LET virtualService ==
               SetControllerReference(instance, generateVirtualService(instance))
       IN  SyncChild("vs", virtualService,
                     CopyVirtualService(virtualService, children["vs"]), f)
    /\ UNCHANGED << passFrame, ss, foundStateful >>

(***************************************************************************)
(* Reconcile: status write-back, pod lookup, culling.                      *)
(***************************************************************************)
\* r.Status().Update(ctx, instance): the status of the pass's copy replaces
\* the stored status.
StatusUpdate(inst, f, cs) ==
    LET err == NotebookWriteErr(f)
        c == Append(cs, Call("statusUpdate", "nb", err, ""))
    IN  IF err # ""
        THEN /\ Return(c, FALSE, err)
             /\ UNCHANGED nb
        ELSE /\ nb' = [nb EXCEPT !.status = NotebookAt(inst, "store").status]
             /\ pc' = After(pc)
             /\ calls' = c
             /\ UNCHANGED result

\* r.Update(ctx, instance): metadata and spec of the pass's copy replace the
\* stored ones; the status is a subresource and is left alone.
\* Reconcile returns after it.
UpdateAndReturn(inst, f, requeue) ==
    LET err == NotebookWriteErr(f)
        c == Append(calls, Call("update", "nb", err, ""))
    IN  IF err # ""
        THEN /\ Return(c, FALSE, err)
             /\ UNCHANGED nb
        ELSE /\ nb' = [nb EXCEPT !.annotations = inst.annotations,
                                 !.labels = inst.labels,
                                 !.spec = inst.spec]
             /\ Return(c, requeue, "")

\* The readyReplicas block with the write left out.
StepStatus_NeverWrites(f) ==
    /\ pc = "status"
    /\ f = "none"
    /\ Continue("status", calls)
    /\ UNCHANGED << nb, instance >>
    /\ UNCHANGED << children, pod, now, useIstio, cullingCount, ext, changed,
                    settled, stale, ss, foundStateful, podFound, emitted, enqueued >>

StepStatus(f) ==
    /\ pc = "status"
    /\ f \in {"none", "write"}
    /\ IF foundStateful.status.readyReplicas # instance.status.readyReplicas
       THEN LET inst == [instance EXCEPT !.status.readyReplicas =
                                            foundStateful.status.readyReplicas]
            IN  /\ instance' = inst
                /\ StatusUpdate(inst, f, calls)
       ELSE /\ f = "none"
            /\ Continue("status", calls)
            /\ UNCHANGED << nb, instance >>
    /\ UNCHANGED << children, pod, now, useIstio, cullingCount, ext, changed,
                    settled, stale, ss, foundStateful, podFound, emitted, enqueued >>

StepPod(f) ==
    /\ pc = "pod"
    /\ IF f = "get"
       THEN /\ Return(Append(calls, Call("get", "pod", "Internal", "")), FALSE, "Internal")
            /\ UNCHANGED << nb, instance, podFound >>
       ELSE IF pod = NoObj \/ pod.name # ss.name \o "-0"
       THEN /\ f = "none"
            /\ Continue("pod", Append(calls, Call("get", "pod", "NotFound", "")))
            /\ UNCHANGED << nb, instance, podFound >>
       ELSE LET p == PodAt(pod, "pod")
                statuses == p.status.containerStatuses
                got == Append(calls, Call("get", "pod", "", ""))
            IN  /\ podFound' = TRUE
                /\ IF /\ Len(statuses) > 0
                      /\ ContainerStateDiffers(statuses[1].state,
                                               instance.status.containerState)
                   THEN LET cs == statuses[1].state
                            inst == [instance EXCEPT
                                        !.status.containerState = cs,
                                        !.status.conditions =
                                            AppendCondition(@, getNextCondition(cs, now))]
                        IN  /\ instance' = inst
                            /\ StatusUpdate(inst, f, got)
                   ELSE /\ f = "none"
                        /\ Continue("pod", got)
                        /\ UNCHANGED << nb, instance >>
    /\ UNCHANGED << children, pod, now, useIstio, cullingCount, ext, changed,
                    settled, stale, ss, foundStateful, emitted, enqueued >>

\* The pod-less branch with the removal kept to the pass's copy: no Update.
ClearLastActivity_NotPersisted(f) ==
    /\ f = "none"
    /\ instance' = [instance EXCEPT !.annotations = MapDelete(@, LAST_ACTIVITY_ANNOTATION)]
    /\ Return(calls, FALSE, "")
    /\ UNCHANGED nb

\* The pod-less branch with every annotation removed from the pass's copy.
ClearLastActivity_ClearsAll(f) ==
    LET inst == [instance EXCEPT !.annotations = EmptyMap]
    IN  /\ instance' = inst
        /\ UpdateAndReturn(inst, f, FALSE)

\* if !podFound: remove the last-activity annotation and return.
ClearLastActivity(f) ==
    IF LAST_ACTIVITY_ANNOTATION \notin DOMAIN instance.annotations
    THEN /\ f = "none"
         /\ Return(calls, FALSE, "")
         /\ UNCHANGED << nb, instance >>
    ELSE LET inst == [instance EXCEPT !.annotations =
                                         MapDelete(@, LAST_ACTIVITY_ANNOTATION)]
         IN  /\ instance' = inst
             /\ UpdateAndReturn(inst, f, FALSE)

\* The culling branch with the metric counted again after the Update.
CullNotebook_CountsTwice(f) ==
    LET inst == SetStopAnnotation(instance, now)
    IN  /\ (f = "write" => cullingCount < MaxCulls)
        /\ instance' = inst
        /\ cullingCount' = cullingCount + 2
        /\ UpdateAndReturn(inst, f, TRUE)

\* if culler.NotebookNeedsCulling: set the stop annotation, count, update.
CullNotebook(f) ==
    LET inst == SetStopAnnotation(instance, now)
    IN  /\ (f = "write" => cullingCount < MaxCulls)
        /\ instance' = inst
        /\ cullingCount' = cullingCount + 1
        /\ UpdateAndReturn(inst, f, TRUE)

\* The last block with the culling decision taken whether or not the pod
\* was found.
StepCull_IgnoresPod(f) ==
    /\ pc = "cull"
    /\ f \in {"none", "write"}
    /\ IF NotebookNeedsCulling(instance, now)
       THEN CullNotebook(f)
       ELSE /\ f = "none"
            /\ Return(calls, podFound, "")
            /\ UNCHANGED << nb, instance, cullingCount >>
    /\ UNCHANGED << children, pod, now, useIstio, ext, changed,
                    settled, stale, ss, foundStateful, podFound, emitted, enqueued >>

StepCull(f) ==
    /\ pc = "cull"
    /\ f \in {"none", "write"}
    /\ IF ~podFound
       THEN /\ ClearLastActivity(f)
            /\ UNCHANGED cullingCount
       ELSE IF NotebookNeedsCulling(instance, now)
            THEN CullNotebook(f)
            ELSE IF ~StopAnnotationIsSet(instance)
            THEN /\ f = "none"
                 /\ Return(calls, TRUE, "")
                 /\ UNCHANGED << nb, instance, cullingCount >>
            ELSE /\ f = "none"
                 /\ Return(calls, TRUE, "")
                 /\ UNCHANGED << nb, instance, cullingCount >>
    /\ UNCHANGED << children, pod, now, useIstio, ext, changed,
                    settled, stale, ss, foundStateful, podFound, emitted, enqueued >>

(***************************************************************************)
(* The environment: the other writers of the store, the pod and the clock. *)
(***************************************************************************)
\* Reconcile has returned: its locals are gone once anything else happens.
Discard ==
    IF pc = "done"
    THEN /\ pc' = "idle"
         /\ instance' = NoObj
         /\ ss' = NoObj
         /\ foundStateful' = ZeroStatefulSet
         /\ podFound' = FALSE
         /\ result' = NoResult
         /\ calls' = <<>>
         /\ emitted' = <<>>
    ELSE UNCHANGED << pc, instance, ss, foundStateful, podFound, result, calls, emitted >>

\* Another actor writes to the store.
ExtWrite ==
    /\ ext < MaxExt
    /\ ext' = ext + 1
    /\ changed' = TRUE
    /\ enqueued' = NoObj
    /\ Discard
    /\ UNCHANGED << now, useIstio, cullingCount, settled >>

\* ... to the annotations or the spec of the Notebook: a pass in flight now
\* holds a stale copy.  The blocks that reconcile the children neither read
\* nor write the stored Notebook, so a write during them is the same as the
\* write right after them.
ExtWriteNotebook ==
    /\ ExtWrite
    /\ nb # NoObj
    /\ pc \notin Kinds
    /\ stale' = (stale \/ InPass)
    /\ UNCHANGED << children, pod >>

ExtSetStop ==
    /\ ExtWriteNotebook
    /\ ~StopAnnotationIsSet(nb)
    /\ nb' = SetStopAnnotation(nb, now)

ExtClearStop ==
    /\ ExtWriteNotebook
    /\ StopAnnotationIsSet(nb)
    /\ nb' = [nb EXCEPT !.annotations = MapDelete(@, STOP_ANNOTATION)]

\* The activity monitor records traffic.
ExtTouch ==
    /\ ExtWriteNotebook
    /\ MapGet(nb.annotations, LAST_ACTIVITY_ANNOTATION) # FormatTime(now)
    /\ nb' = [nb EXCEPT !.annotations = MapSet(@, LAST_ACTIVITY_ANNOTATION, FormatTime(now))]

ExtEditSpec(image) ==
    /\ ExtWriteNotebook
    /\ nb.spec.template.spec.containers[1].image # image
    /\ nb' = [nb EXCEPT !.spec.template.spec.containers[1].image = image]

\* The owner deletes the Notebook; the store deletes what it owns.
ExtDeleteNotebook ==
    /\ ExtWrite
    /\ nb # NoObj
    /\ nb' = NoObj
    /\ children' = [k \in Kinds |->
                      IF children[k] # NoObj /\ children[k].owner = NbName
                      THEN NoObj ELSE children[k]]
    /\ pod' = NoObj
    /\ stale' = stale

Tick ==
    /\ ~InPass
    /\ now < MaxClock
    /\ now' = now + 1
    /\ enqueued' = NoObj
    /\ Discard
    /\ UNCHANGED << nb, children, pod, useIstio, cullingCount, ext,
                    changed, settled, stale >>

ContainerStates ==
    { WaitingState,
      RunningState,
      [ZeroContainerState EXCEPT !.Terminated =
          Ptr("store", [reason |-> "Error", message |-> "exit 1"])] }

PodStatuses == { <<>> } \cup { << [state |-> cs] >> : cs \in ContainerStates }

\* The workload controller and the kubelet create the pod and report on it.
PodReport(statuses) ==
    /\ ~InPass
    /\ ExtWrite
    /\ children["sts"] # NoObj
    /\ LET p == PodOf(children["sts"], statuses)
       IN  /\ pod # p
           /\ pod' = p
    /\ UNCHANGED << nb, children, stale >>

PodDelete ==
    /\ ~InPass
    /\ ExtWrite
    /\ pod # NoObj
    /\ pod' = NoObj
    /\ UNCHANGED << nb, children, stale >>

\* The workload controller reports the ready replicas.
StsReady(r) ==
    /\ ~InPass
    /\ ExtWrite
    /\ children["sts"] # NoObj
    /\ children["sts"].status.readyReplicas # r
    /\ r = 1 => pod # NoObj
    /\ children' = [children EXCEPT !["sts"].status.readyReplicas = r]
    /\ UNCHANGED << nb, pod, stale >>

\* Another actor edits a field of a child that the controller owns.
Drifted(kind, o) ==
    CASE kind = "pvc" -> [o EXCEPT !.size = "20Gi"]
      [] kind = "sts" -> [o EXCEPT !.spec.template.spec.volumes = <<>>]
      [] kind = "svc" -> [o EXCEPT !.spec.selector = [k \in {"app"} |-> "other"],
                                   !.spec.type = "NodePort"]
      [] kind = "ing" -> [o EXCEPT !.spec.rules = <<>>]
      [] OTHER -> [k \in (DOMAIN o) \ {"spec"} |-> o[k]]

ChildDrift(kind) ==
    /\ ~InPass
    /\ ExtWrite
    /\ children[kind] # NoObj
    /\ Drifted(kind, children[kind]) # children[kind]
    /\ children' = [children EXCEPT ![kind] = Drifted(kind, @)]
    /\ UNCHANGED << nb, pod, stale >>

\* Another actor removes the annotations of the stored service.
ServiceStrip ==
    /\ ~InPass
    /\ ExtWrite
    /\ children["svc"] # NoObj
    /\ children["svc"].annotations # EmptyMap
    /\ children' = [children EXCEPT !["svc"].annotations = EmptyMap]
    /\ UNCHANGED << nb, pod, stale >>

ChildDelete(kind) ==
    /\ ~InPass
    /\ ExtWrite
    /\ children[kind] # NoObj
    /\ children' = [children EXCEPT ![kind] = NoObj]
    /\ UNCHANGED << nb, pod, stale >>

(***************************************************************************)
(* The specification.                                                      *)
(***************************************************************************)
Next ==
    \/ \E req \in Requests, f \in {"none", "getEvent", "getNotebook"} :
          ReconcileNotebook(req, f)
    \/ \E e \in EventObjects, f \in {"none", "getPod", "getNotebook"} :
          ReconcileEvent(EventKey, e, f)
    \/ \E f \in Faults : StepPvc(f)
    \/ \E f \in Faults : StepSts(f)
    \/ \E f \in Faults : StepSvc(f)
    \/ \E f \in Faults : StepIng(f)
    \/ \E f \in Faults : StepCert(f)
    \/ \E f \in Faults : StepVs(f)
    \/ \E f \in Faults : StepStatus(f)
    \/ \E f \in Faults : StepPod(f)
    \/ \E f \in Faults : StepCull(f)
    \/ ExtSetStop
    \/ ExtClearStop
    \/ ExtTouch
    \/ \E i \in Images : ExtEditSpec(i)
    \/ ExtDeleteNotebook
    \/ Tick
    \/ \E st \in PodStatuses : PodReport(st)
    \/ PodDelete
    \/ \E r \in {0, 1} : StsReady(r)
    \/ \E k \in Kinds : ChildDrift(k)
    \/ ServiceStrip
    \/ \E k \in Kinds : ChildDelete(k)

Spec == Init /\ [][Next]_vars

\* The watch on events and the writers of what its predicate reads.
EventNext ==
    \/ \E reg \in Registrations, op \in Notifications, e \in EventObjects,
          f \in {"none", "getPod", "getNotebook"} : Notify(reg, op, e, f)
    \/ ExtDeleteNotebook
    \/ \E st \in PodStatuses : PodReport(st)
    \/ PodDelete

EventSpec == Init /\ [][EventNext]_vars

\* The passes over the Notebooks of InputNotebooks, no other actor writing.
SynthNext ==
    \/ \E req \in Requests, f \in {"none", "getEvent", "getNotebook"} :
          ReconcileNotebook(req, f)
    \/ \E f \in Faults : StepPvc(f)
    \/ \E f \in Faults : StepSts(f)
    \/ \E f \in Faults : StepSvc(f)
    \/ \E f \in Faults : StepIng(f)
    \/ \E f \in Faults : StepCert(f)
    \/ \E f \in Faults : StepVs(f)
    \/ \E f \in Faults : StepStatus(f)
    \/ \E f \in Faults : StepPod(f)
    \/ \E f \in Faults : StepCull(f)

SynthSpec == SynthInit /\ [][SynthNext]_vars

\* The passes and the environment around a Notebook that is being started.
StartingSpec == StartingInit /\ [][Next]_vars

\* Names and namespaces of Notebooks, hyphens included as DNS labels allow.
NotebookNames == {"a", "a-b", "b"}
NotebookNamespaces == {"c", "b-c", "a"}

NamedNotebook(name, namespace) ==
    [NewNotebook("jupyter:1") EXCEPT !.name = name, !.namespace = namespace]

\* Two Notebooks of the cluster: `nb`, whose route a pass stores, and
\* `instance`, the one a pass at its route block holds.
RouteInit ==
    /\ \E n \in NotebookNames, ns \in NotebookNamespaces : nb = NamedNotebook(n, ns)
    /\ \E n \in NotebookNames, ns \in NotebookNamespaces :
          instance = NamedNotebook(n, ns)
    /\ children = [k \in Kinds |-> NoObj]
    /\ pod = NoObj
    /\ useIstio = FALSE
    /\ now = 0
    /\ cullingCount = 0
    /\ ext = 0
    /\ changed = FALSE
    /\ settled = FALSE
    /\ pc = "ing"
    /\ stale = FALSE
    /\ ss = NoObj
    /\ foundStateful = ZeroStatefulSet
    /\ podFound = FALSE
    /\ result = NoResult
    /\ calls = <<>>
    /\ emitted = <<>>
    /\ enqueued = NoObj

\* The route of the Notebook `nb` is stored as generateIngress makes it.
StoreRoute ==
    /\ children["ing"] = NoObj
    /\ children' = [children EXCEPT !["ing"] = generateIngress(nb)]
    /\ UNCHANGED << nb, pod, now, useIstio, cullingCount, ext, changed, settled,
                    pc, instance, stale, ss, foundStateful, podFound, result,
                    calls, emitted, enqueued >>

\* The pass synthesizes the route of its Notebook; `ss` holds it here.
SynthesizeRoute ==
    /\ ss = NoObj
    /\ ss' = generateIngress(instance)
    /\ UNCHANGED << nb, children, pod, now, useIstio, cullingCount, ext, changed,
                    settled, pc, instance, stale, foundStateful, podFound, result,
                    calls, emitted, enqueued >>

RouteNext == StoreRoute \/ SynthesizeRoute

RouteSpec == RouteInit /\ [][RouteNext]_vars

\* The passes of the Notebook's key over a store that may hold, under that
\* same name and namespace, an event: r.Get of the event by the request key
\* then finds it.
SameKeyNext ==
    \/ \E f \in {"none", "getEvent", "getNotebook"} : ReconcileNotebook(NbName, f)
    \/ \E e \in EventObjects, f \in {"none", "getPod", "getNotebook"} :
          ReconcileEvent(NbName, e, f)
    \/ \E f \in Faults : StepPvc(f)
    \/ \E f \in Faults : StepSts(f)
    \/ \E f \in Faults : StepSvc(f)
    \/ \E f \in Faults : StepIng(f)
    \/ \E f \in Faults : StepCert(f)
    \/ \E f \in Faults : StepVs(f)
    \/ \E f \in Faults : StepStatus(f)
    \/ \E f \in Faults : StepPod(f)
    \/ \E f \in Faults : StepCull(f)

SameKeySpec == Init /\ [][SameKeyNext]_vars

\* The passes of the Notebook's key without store errors: one block each.
QuietPass ==
    \/ ReconcileNotebook(NbName, "none")
    \/ StepPvc("none")
    \/ StepSts("none")
    \/ StepSvc("none")
    \/ StepIng("none")
    \/ StepCert("none")
    \/ StepVs("none")
    \/ StepStatus("none")
    \/ StepPod("none")
    \/ StepCull("none")

\* The controller left to itself: passes that meet no store error, a pass
\* for the other key, and the clock.
QuietNext ==
    \/ QuietPass
    \/ ReconcileNotebook(EventKey, "none")
    \/ Tick

QuietInit == InitFrom(Situations \cup StartingSituations)

\* Every return of Reconcile on a Notebook that has a pod asks for a requeue,
\* and the Notebook's update is watched: a further pass always comes, and a
\* pass that has begun runs to its return.
QuietSpec == QuietInit /\ [][QuietNext]_vars /\ WF_vars(QuietPass)

(***************************************************************************)
(* Properties of a pass, read off the store calls it issued.               *)
(***************************************************************************)
\* The pass reconciles a Notebook (not an event) and has returned success.
PassSucceeded == pc = "done" /\ result.err = "" /\ instance # NoObj

\* The positions in `calls` of the creates and updates of child objects.
ChildWrites ==
    { i \in DOMAIN calls : calls[i].op \in {"create", "update"} /\ calls[i].kind \in Kinds }

\* The positions in `calls` of the writes of the Notebook with operation op.
NotebookWrites(op) ==
    { i \in DOMAIN calls : calls[i].kind = "nb" /\ calls[i].op = op }

\* A call whose error Reconcile does not handle: every error but the
\* NotFound of a lookup.
Failed(c) == c.err # "" /\ ~(c.op = "get" /\ c.err = "NotFound")

\* The child kinds a pass reconciles.
EnabledKinds == IF useIstio THEN Kinds ELSE Kinds \ {"vs"}

\* C1: a pass that follows a successful pass, with no write of another actor
\* to the Notebook, its children or its pod since that pass began, issues no
\* create and no update for any child kind.
C1_SecondPassWritesNoChild ==
    (PassSucceeded /\ settled /\ ~changed) => ChildWrites = {}

\* C2: the workload generateStatefulSet makes of a Notebook has replicas 0
\* when the stop annotation is present on the Notebook and replicas 1 when it
\* is absent, for the stored Notebook and for the copy a pass holds.
C2_ReplicasFollowStopAnnotation ==
    \A n \in {nb, instance} \ {NoObj} :
        generateStatefulSet(n).spec.replicas.val =
            IF STOP_ANNOTATION \in DOMAIN n.annotations THEN 0 ELSE 1

\* C2: a pass has synthesized a workload with replicas 0 from a Notebook that
\* carries the stop annotation.
C2_Witness ==
    /\ ss # NoObj
    /\ STOP_ANNOTATION \in DOMAIN instance.annotations
    /\ ss.spec.replicas.val = 0
    /\ pc = "svc"

\* C3: in every pass that has synthesized its workload, as long as no other
\* actor has written to the Notebook since the pass read it, the synthesized
\* replicas are 0 when the stored Notebook carries the stop marker and 1 when
\* it does not: 0 in every pass after the marker was set, 1 in the pass after
\* it was cleared.
C3_CullingMonotone ==
    (/\ pc \in {"svc", "ing", "cert", "vs", "status", "pod", "cull"}
     /\ ~stale
     /\ nb # NoObj)
    => ss.spec.replicas.val = IF StopAnnotationIsSet(nb) THEN 0 ELSE 1

\* C3: the controller has culled the Notebook and a later pass has
\* synthesized replicas 0 from the stored marker.
C3_Witness ==
    /\ cullingCount >= 1
    /\ pc = "svc"
    /\ ~stale
    /\ nb # NoObj
    /\ StopAnnotationIsSet(nb)
    /\ ss.spec.replicas.val = 0

\* C4: every child object a pass has created carries the Notebook as its
\* controller owner.
C4_CreatedChildrenAreOwned ==
    \A i \in DOMAIN calls :
        (calls[i].op = "create" /\ calls[i].err = "") => calls[i].owner = NbName

\* C5: a store call that fails is the last call of its pass and the pass
\* returns its error; and a pass that returns success has looked up every
\* child kind, the pod included.
C5_AbortOnFirstFailure ==
    /\ \A i \in DOMAIN calls :
          Failed(calls[i]) =>
             /\ i = Len(calls)
             /\ pc = "done"
             /\ result.err = calls[i].err
    /\ PassSucceeded =>
          \A k \in EnabledKinds \cup {"pod"} :
             \E i \in DOMAIN calls : calls[i].kind = k /\ calls[i].op = "get"

\* C5: the update of the workload failed in the middle of the sequence and
\* the pass returned the error.
C5_Witness ==
    /\ pc = "done"
    /\ instance # NoObj
    /\ result.err = "Internal"
    /\ calls[Len(calls)].op = "update"
    /\ calls[Len(calls)].kind = "sts"
    /\ calls[Len(calls)].err = "Internal"

\* The step of the fixed sequence the i-th call of the pass belongs to.  A
\* status update is the readyReplicas write-back before the pod lookup and
\* the container-state write-back after it.
Rank(i) ==
    LET c == calls[i]
    IN  CASE c.kind = "event" -> 0
          [] c.kind = "nb" /\ c.op = "get" -> 1
          [] c.kind = "pvc" -> 2
          [] c.kind = "sts" -> 3
          [] c.kind = "svc" -> 4
          [] c.kind = "ing" -> 5
          [] c.kind = "cert" -> 6
          [] c.kind = "vs" -> 7
          [] c.kind = "nb" /\ c.op = "statusUpdate" ->
                IF \E j \in 1 .. (i - 1) : calls[j].kind = "pod" THEN 9 ELSE 8
          [] c.kind = "pod" -> 9
          [] OTHER -> 10

\* C6: the store calls of a pass for a Notebook are issued in the order
\* volume claim, workload, service, route, certificate, traffic rule (only
\* when enabled), readyReplicas status write-back, pod lookup, culling
\* decision; within a step the lookup comes before the write.
C6_FixedOrder ==
    instance # NoObj =>
       /\ \A i, j \in DOMAIN calls :
             i < j =>
                /\ Rank(i) <= Rank(j)
                /\ Rank(i) = Rank(j) => (calls[i].op = "get" /\ calls[j].op # "get")
       /\ (\E i \in DOMAIN calls : calls[i].kind = "vs") => useIstio

\* C6: a pass with the traffic rule enabled went through the whole sequence
\* and ended with the update of the culling decision.
C6_Witness ==
    /\ PassSucceeded
    /\ useIstio
    /\ \E i \in DOMAIN calls : calls[i].kind = "vs"
    /\ \E i \in DOMAIN calls : calls[i].kind = "pod"
    /\ calls[Len(calls)].op = "update"
    /\ calls[Len(calls)].kind = "nb"

\* No two adjacent entries of the history h have the same type, reason and message.
NoAdjacentDuplicate(h) ==
    \A i \in 1 .. (Len(h) - 1) :
        \/ h[i].type # h[i + 1].type
        \/ h[i].reason # h[i + 1].reason
        \/ h[i].message # h[i + 1].message

\* C7: neither the stored condition history nor the one a pass holds ever
\* has two adjacent entries with the same type, reason and message.
C7_ConditionDedup ==
    \A n \in {nb, instance} \ {NoObj} : NoAdjacentDuplicate(n.status.conditions)

\* C7: a pass after a settled one observed the container state again, wrote
\* the status, and the history of two entries did not grow.
C7_Witness ==
    /\ pc = "cull"
    /\ settled
    /\ ~changed
    /\ nb # NoObj
    /\ Len(nb.status.conditions) = 2
    /\ calls[Len(calls)].op = "statusUpdate"
    /\ calls[Len(calls) - 1].kind = "pod"

C9_RequeueRule ==
    PassSucceeded =>
       (result.requeueAfter <=> (podFound /\ ~StopAnnotationIsSet(instance)))

\* C10 as stated: a successful pass that found no pod leaves no last-activity
\* annotation, and when it had none to remove (it issued no Update) it wrote
\* nothing to the Notebook.
C10_PodlessWritesNothing ==
    (PassSucceeded /\ ~podFound) =>
       /\ LAST_ACTIVITY_ANNOTATION \notin DOMAIN instance.annotations
       /\ NotebookWrites("update") = {} => NotebookWrites("statusUpdate") = {}

\* C10: the step of a pass that found no pod removes the last-activity
\* annotation and nothing else from the pass's Notebook, leaves the culling
\* counter alone and asks for no requeue; when the annotation was present it
\* issues one Update, which stores the annotations when it succeeds; when it
\* was absent it issues no call and leaves the stored Notebook as it is.  The
\* only write to the Notebook before that step is the readyReplicas status
\* write-back.
C10_PodlessStep ==
    [][ (pc = "cull" /\ pc' = "done" /\ ~podFound)
        => /\ instance'.annotations =
                 MapDelete(instance.annotations, LAST_ACTIVITY_ANNOTATION)
           /\ cullingCount' = cullingCount
           /\ ~result'.requeueAfter
           /\ NotebookWrites("update") = {}
           /\ Cardinality(NotebookWrites("statusUpdate")) <= 1
           /\ IF LAST_ACTIVITY_ANNOTATION \in DOMAIN instance.annotations
              THEN /\ Len(calls') = Len(calls) + 1
                   /\ calls'[Len(calls')].op = "update"
                   /\ calls'[Len(calls')].kind = "nb"
                   /\ result'.err = calls'[Len(calls')].err
                   /\ IF result'.err = ""
                      THEN nb'.annotations = instance'.annotations
                      ELSE nb' = nb
              ELSE /\ calls' = calls
                   /\ nb' = nb
                   /\ result'.err = "" ]_vars

\* C10: a pass found no pod and no last-activity annotation, and its one
\* write to the Notebook was the readyReplicas status write-back.
C10_Witness ==
    /\ PassSucceeded
    /\ ~podFound
    /\ NotebookWrites("update") = {}
    /\ Cardinality(NotebookWrites("statusUpdate")) = 1
    /\ nb # NoObj
    /\ nb.status.readyReplicas = 0

\* A step of the pass: Reconcile moves from one block to the next or returns.
PassStep == InPass /\ pc' # pc

\* The last store call of the pass.
LastCall == calls[Len(calls)]

\* C11: the controller never clears the stop marker and never puts back one
\* that another actor removed after the pass read the Notebook.  A step of
\* the pass leaves the stored Notebook in place and its stop marker set when
\* it was set, and a step that changes the stored annotations is taken from
\* a read no other actor has written after, so what it writes differs from
\* what the store holds only by what the pass itself decided.
C11_StopMarkerNotClearedNorRevived ==
    [][(PassStep /\ nb # NoObj) =>
          /\ nb' # NoObj
          /\ StopAnnotationIsSet(nb) => StopAnnotationIsSet(nb')
          /\ nb'.annotations # nb.annotations =>
                /\ ~stale
                /\ nb'.annotations = instance'.annotations
                /\ \/ nb'.annotations = MapDelete(nb.annotations, LAST_ACTIVITY_ANNOTATION)
                   \/ nb'.annotations = SetStopAnnotation(nb, now).annotations]_vars

\* The pass read a Notebook with the stop marker, another actor removed the
\* marker, and the store rejected the Update of the pod-less branch.
C11_Witness ==
    /\ pc = "done"
    /\ instance # NoObj
    /\ StopAnnotationIsSet(instance)
    /\ nb # NoObj
    /\ ~StopAnnotationIsSet(nb)
    /\ LastCall = Call("update", "nb", "Conflict", "")

\* C12: the controller sets the stop marker only in a pass that found the
\* primary pod, and only after the status write-back of that pass.  A step
\* of the pass that puts the marker on the pass's copy or on the stored
\* Notebook is the last block of a pass whose pod lookup succeeded, and every
\* status update of that pass was issued before it.
C12_StopMarkerOnlyAfterPodFound ==
    [][(/\ PassStep
        /\ instance # NoObj
        /\ \/ ~StopAnnotationIsSet(instance) /\ StopAnnotationIsSet(instance')
           \/ nb # NoObj /\ nb' # NoObj
                /\ ~StopAnnotationIsSet(nb) /\ StopAnnotationIsSet(nb'))
       => /\ pc = "cull"
          /\ podFound
          /\ \E i \in 1..Len(calls) : calls[i] = Call("get", "pod", "", "")
          /\ \A i \in 1..Len(calls') :
                calls'[i].op = "statusUpdate" => i <= Len(calls)]_vars

\* A pass found the pod, wrote the status back and then stopped the idle
\* Notebook.
C12_Witness ==
    /\ pc = "done"
    /\ result.err = ""
    /\ podFound
    /\ nb # NoObj
    /\ StopAnnotationIsSet(nb)
    /\ LastCall = Call("update", "nb", "", "")
    /\ \E i \in 1..Len(calls) : calls[i].op = "statusUpdate"

\* The object the notified event is about.
Subject == enqueued.event.involvedObject

\* C13: predNBEvents rejects every event whose subject is neither a Pod nor a
\* StatefulSet, and every event about a pod that carries no notebook-name
\* label, whether or not a Notebook exists.
C13_UnrelatedEventsRejected ==
    (enqueued # NoObj /\ enqueued.predicate = "predNBEvents") =>
        /\ Subject.kind \notin {"Pod", "StatefulSet"} => ~enqueued.accepted
        /\ (/\ Subject.kind = "Pod"
            /\ StoredPod(Subject.name) # NoObj
            /\ "notebook-name" \notin DOMAIN StoredPod(Subject.name).labels)
           => ~enqueued.accepted

\* A Notebook exists and the event about a pod without the label was rejected
\* when it was created.
C13_Witness ==
    /\ enqueued # NoObj
    /\ enqueued.predicate = "predNBEvents"
    /\ enqueued.op = "create"
    /\ nb # NoObj
    /\ Subject.kind = "Pod"
    /\ Subject.name = OtherPod.name
    /\ ~enqueued.accepted

\* C14: for a create, update or generic notification of an event about a Pod
\* or a StatefulSet whose Notebook name was resolved, predNBEvents rejects
\* when the lookup of the Notebook answers NotFound, accepts when the
\* Notebook exists and accepts when the lookup fails with another error.
C14_NotebookLookupDecides ==
    (/\ enqueued # NoObj
     /\ enqueued.predicate = "predNBEvents"
     /\ enqueued.op # "delete"
     /\ Subject.kind \in {"Pod", "StatefulSet"}
     /\ nbNameFromInvolvedObject(Subject, enqueued.fault).err = "")
    => LET nbName == nbNameFromInvolvedObject(Subject, enqueued.fault).name
       IN  /\ enqueued.fault = "getNotebook" => enqueued.accepted
           /\ (enqueued.fault # "getNotebook" /\ (nb = NoObj \/ nb.name # nbName))
                 => ~enqueued.accepted
           /\ (enqueued.fault # "getNotebook" /\ nb # NoObj /\ nb.name = nbName)
                 => enqueued.accepted

\* The Notebook is gone, the lookup failed with a server error, and the
\* event was let through.
C14_Witness ==
    /\ enqueued # NoObj
    /\ enqueued.predicate = "predNBEvents"
    /\ enqueued.fault = "getNotebook"
    /\ nb = NoObj
    /\ enqueued.accepted

\* C15: the event predicate answers false to every delete notification,
\* whatever the event is about and whether or not its Notebook exists.
C15_DeleteNeverEnqueues ==
    (enqueued # NoObj /\ enqueued.op = "delete") => ~enqueued.accepted

\* The pass found an event under the request key.
EventPass == pc = "done" /\ calls # <<>> /\ calls[1] = Call("get", "event", "", "")

\* The pass looked up the pod an event is about and found it.
SubjectPodFound == \E i \in 1..Len(calls) : calls[i] = Call("get", "pod", "", "")

\* C16: when Reconcile finds an event under the request key and resolves the
\* Notebook it belongs to, it records exactly one event against that
\* Notebook, with the type and the reason of the original and the message
\* "Reissued from <lower-cased kind>/<name>: <original message>"; the
\* Notebook is the one named like the workload for an event about a
\* StatefulSet and the one named by the notebook-name label of the pod for an
\* event about a Pod.  No other pass records an event.
C16_EventReissued ==
    /\ Len(emitted) <= 1
    /\ (EventPass /\ LastCall = Call("get", "nb", "", "")) => Len(emitted) = 1
    /\ emitted # <<>> =>
          /\ EventPass
          /\ LastCall = Call("get", "nb", "", "")
          /\ nb # NoObj
          /\ emitted[1].object = nb.name
          /\ IF SubjectPodFound
             THEN /\ pod # NoObj
                  /\ emitted[1].object = pod.labels["notebook-name"]
                  /\ emitted[1].type = "Warning"
                  /\ emitted[1].reason = "FailedScheduling"
                  /\ emitted[1].message = "Reissued from pod/nb1-0: 0/3 nodes"
             ELSE /\ emitted[1].object = NbName
                  /\ emitted[1].type = "Normal"
                  /\ emitted[1].reason = "SuccessfulCreate"
                  /\ emitted[1].message =
                        "Reissued from statefulset/nb1: create Pod nb1-0 successful"

\* The event about the pod of the Notebook was re-emitted.
C16_Witness ==
    /\ EventPass
    /\ SubjectPodFound
    /\ Len(emitted) = 1
    /\ emitted[1].message = "Reissued from pod/nb1-0: 0/3 nodes"

\* C17: when Reconcile finds an event under the request key and cannot
\* resolve the Notebook it belongs to (a pod without the notebook-name label,
\* a subject that is neither a Pod nor a StatefulSet), the event is dropped:
\* no store call of the pass failed, no Notebook was looked up, nothing is
\* recorded, and Reconcile returns without error.
C17_UnresolvedEventDropped ==
    (/\ EventPass
     /\ \A i \in 1..Len(calls) : calls[i].err = "" /\ calls[i].kind # "nb")
    => (result.err = "" /\ emitted = <<>>)

\* C18: a lookup that answers NotFound never makes Reconcile return an
\* error: a pass whose last store call is a read that found nothing returns
\* without error.
C18_NotFoundNotPropagated ==
    (/\ pc = "done"
     /\ calls # <<>>
     /\ LastCall.op = "get"
     /\ LastCall.err = "NotFound")
    => result.err = ""

\* The stored service with the four fields CopyServiceFields owns taken from
\* the service s.
WithOwnedFieldsOf(s, stored) ==
    [stored EXCEPT !.labels = s.labels,
                   !.annotations = s.annotations,
                   !.spec.selector = s.spec.selector,
                   !.spec.ports = s.spec.ports]

\* C19: after a successful pass that no other actor wrote during, the labels,
\* annotations, selector and ports of the stored service are those of the
\* service the pass synthesized, also when the stored service lacked an
\* annotation or a label of the desired one.
C19_ServiceDriftCorrected ==
    (PassSucceeded /\ ~changed /\ children["svc"] # NoObj) =>
        WithOwnedFieldsOf(generateService(instance), children["svc"]) = children["svc"]

\* C20: no step of a pass changes a field of the stored service other than
\* its labels, annotations, selector and ports: the cluster-internal address,
\* the type, the name and the owner stay as they were fetched.
C20_ServiceFrame ==
    [][(PassStep /\ children["svc"] # NoObj) =>
          /\ children'["svc"] # NoObj
          /\ WithOwnedFieldsOf(children["svc"], children'["svc"]) = children["svc"]]_vars

\* The pass updated a service whose selector and type another actor had
\* changed: the selector is the desired one again, the type and the assigned
\* address are what the pass fetched.
C20_Witness ==
    /\ pc = "ing"
    /\ LastCall.op = "update"
    /\ LastCall.kind = "svc"
    /\ LastCall.err = ""
    /\ children["svc"].spec.selector = generateService(instance).spec.selector
    /\ children["svc"].spec.type = "NodePort"
    /\ children["svc"].spec.clusterIP = AssignedClusterIP

\* The positions of the variables named NB_PREFIX in an environment.
PrefixEntries(env) == { i \in DOMAIN env : env[i].name = PrefixEnvVar }

\* C21: the primary container of the workload a pass synthesized has exactly
\* one environment variable named NB_PREFIX, and its value is
\* /notebook/<namespace>/<name>.
C21_PrefixEnvVar ==
    ss # NoObj =>
        LET env == ss.spec.template.spec.containers[1].env
        IN  /\ Cardinality(PrefixEntries(env)) = 1
            /\ \A i \in PrefixEntries(env) :
                  env[i].value = "/notebook/" \o instance.namespace \o "/" \o instance.name

\* C22: the condition derived from a container state has type Running and
\* neither reason nor message when the container is running, type Waiting
\* with the reason and the message of the waiting state when it is waiting,
\* and type Terminated with the reason and the message of the terminated
\* state when it is terminated.  The head of the stored history is the
\* condition derived from the stored container state.
C22_ConditionDerivation ==
    (nb # NoObj /\ nb.status.conditions # <<>>) =>
        LET cs == nb.status.containerState
            c == nb.status.conditions[1]
        IN  /\ cs.Running # Nil =>
                  (c.type = "Running" /\ c.reason = "" /\ c.message = "")
            /\ (cs.Running = Nil /\ cs.Waiting # Nil) =>
                  /\ c.type = "Waiting"
                  /\ c.reason = cs.Waiting.val.reason
                  /\ c.message = cs.Waiting.val.message
            /\ (cs.Running = Nil /\ cs.Waiting = Nil /\ cs.Terminated # Nil) =>
                  /\ c.type = "Terminated"
                  /\ c.reason = cs.Terminated.val.reason
                  /\ c.message = cs.Terminated.val.message

\* The state of the first container of the stored pod.
FirstContainerState == pod.status.containerStatuses[1].state

\* C23: when the head of the condition history is of type Waiting and a pass
\* finds the primary pod with its first container running, the pass issues a
\* status update with a history that is the old one with one condition of
\* type Running put in front, and the stored history is that one once the
\* store has accepted the update.
C23_WaitingToRunning ==
    [][(/\ pc = "pod"
        /\ pc' # pc
        /\ podFound'
        /\ instance.status.conditions # <<>>
        /\ instance.status.conditions[1].type = "Waiting"
        /\ nb # NoObj
        /\ nb.status.conditions = instance.status.conditions
        /\ Len(pod.status.containerStatuses) > 0
        /\ FirstContainerState.Running # Nil)
       => /\ calls'[Len(calls')].op = "statusUpdate"
          /\ Len(instance'.status.conditions) = Len(instance.status.conditions) + 1
          /\ instance'.status.conditions[1].type = "Running"
          /\ Tail(instance'.status.conditions) = instance.status.conditions
          /\ calls'[Len(calls')].err = "" =>
                nb'.status.conditions = instance'.status.conditions]_vars

\* The status update that put Running in front of Waiting was accepted.
C23_Witness ==
    /\ pc = "cull"
    /\ nb # NoObj
    /\ LastCall = Call("statusUpdate", "nb", "", "")
    /\ Len(nb.status.conditions) = 2
    /\ nb.status.conditions[1].type = "Running"
    /\ nb.status.conditions[2].type = "Waiting"

\* The Notebook without its stop marker.
Unstopped(n) == [n EXCEPT !.annotations = MapDelete(@, STOP_ANNOTATION)]

\* The stored child of a kind is what a pass made of the Notebook the pass
\* holds when that Notebook had no stop marker.
SyncedBeforeStop(kind) ==
    /\ children[kind] # NoObj
    /\ IF kind = "sts"
       THEN [children[kind] EXCEPT !.status.readyReplicas = 0]
               = DesiredChild(kind, Unstopped(instance))
       ELSE children[kind] = DesiredChild(kind, Unstopped(instance))

\* The store calls a step added to those of the pass.
NewCalls == SubSeq(calls', Len(calls) + 1, Len(calls'))

\* C24: in a pass over a Notebook that carries the stop marker, the block of
\* a child that was synced while the marker was absent issues no create and
\* no update, except the block of the workload, which issues exactly one
\* update that brings the stored replicas to 0.  Each block runs once in a
\* pass, so such a pass issues one child update, on the workload, and none
\* for the route or the certificate.
C24_StopMarkerScenario ==
    [][(/\ PassStep
        /\ pc \in Kinds
        /\ StopAnnotationIsSet(instance)
        /\ SyncedBeforeStop(pc))
       => IF pc = "sts"
          THEN \/ NewCalls[Len(NewCalls)].err # ""
               \/ /\ NewCalls = << Call("get", "sts", "", ""),
                                   Call("update", "sts", "", instance.name) >>
                  /\ children'["sts"].spec.replicas.val = 0
          ELSE /\ \A i \in DOMAIN NewCalls : NewCalls[i].op = "get"
               /\ children' = children]_vars

\* A pass over the stopped Notebook has succeeded: its one write of a child
\* is the update of the workload, and the other children are as they were
\* synced before the marker was set.
C24_Witness ==
    /\ PassSucceeded
    /\ StopAnnotationIsSet(instance)
    /\ \A i \in ChildWrites : calls[i] = Call("update", "sts", "", NbName)
    /\ Cardinality(ChildWrites) = 1
    /\ children["sts"] # NoObj
    /\ children["sts"].spec.replicas.val = 0
    /\ \A k \in EnabledKinds \ {"sts"} : SyncedBeforeStop(k)

\* The name each child kind is stored under.
ChildName(kind) ==
    CASE kind = "pvc" -> "claim1"
      [] kind = "sts" -> "nb1"
      [] kind = "svc" -> "nb1"
      [] kind = "ing" -> "nb1-team-a"
      [] kind = "cert" -> "cert-team-a-nb1"
      [] OTHER -> "notebook-team-a-nb1"

\* The positions in `calls` of the calls with operation op on a kind.
CallsOn(op, kind) == { i \in DOMAIN calls : calls[i].op = op /\ calls[i].kind = kind }

\* C25: a pass that found none of the children of an existing Notebook and
\* in which no store call failed has, once past the blocks of the children,
\* left the volume claim, the workload, the service, the route and the
\* certificate (and the traffic rule when USE_ISTIO is "true") in the store
\* under their names, each by exactly one create call and no update call.
C25_FirstPassCreatesAll ==
    (/\ pc \in {"status", "pod", "cull", "done"}
     /\ instance # NoObj
     /\ ~changed
     /\ \A i \in DOMAIN calls : calls[i].err \in {"", "NotFound"}
     /\ \A k \in EnabledKinds : \E i \in CallsOn("get", k) : calls[i].err = "NotFound")
    => \A k \in EnabledKinds :
          /\ children[k] # NoObj
          /\ children[k].name = ChildName(k)
          /\ children[k].namespace = NbNamespace
          /\ Cardinality(CallsOn("create", k)) = 1
          /\ CallsOn("update", k) = {}

\* The first pass over a new Notebook has succeeded with the traffic rule
\* enabled: six creates.
C25_Witness ==
    /\ PassSucceeded
    /\ useIstio
    /\ ~changed
    /\ \A k \in Kinds : children[k] # NoObj /\ Cardinality(CallsOn("create", k)) = 1
    /\ \A i \in DOMAIN calls : calls[i].op # "update"

\* The pass fetched an existing workload.
WorkloadFound == \E i \in CallsOn("get", "sts") : calls[i].err = ""

\* C26: after a successful pass over an existing workload, the replica count
\* and the whole pod template of the stored workload (its labels and
\* annotations as well as its spec) are those of the workload the pass
\* synthesized, also when the labels of the Notebook have changed since the
\* workload was written.
C26_WorkloadDriftCorrected ==
    (PassSucceeded /\ ~changed /\ WorkloadFound /\ children["sts"] # NoObj) =>
        /\ children["sts"].spec.replicas.val = ss.spec.replicas.val
        /\ children["sts"].spec.template = ss.spec.template

\* The headers a traffic rule sets on requests.
RequestHeaderSet(vs) == vs.spec.http[1].headers.request.set

\* The header annotation of the Notebook the pass holds, "" when absent.
HeaderAnnotation == MapGet(instance.annotations, AnnotationHeadersRequestSet)

\* C28: for a header annotation that is absent, empty or not a JSON object
\* of strings, generateVirtualService yields a traffic rule whose set of
\* request headers is empty, the pass does not fail on it, and the traffic
\* rule the pass creates carries the empty set.
C28_MalformedHeadersRecovered ==
    (instance # NoObj /\ HeaderAnnotation # "{\"X-User\":\"u1\"}") =>
        /\ RequestHeaderSet(generateVirtualService(instance)) = EmptyMap
        /\ (pc = "vs" /\ children["vs"] = NoObj) => ENABLED StepVs("none")
        /\ (/\ CallsOn("create", "vs") # {}
            /\ \A i \in CallsOn("create", "vs") : calls[i].err = "")
           => /\ children["vs"] # NoObj
              /\ RequestHeaderSet(children["vs"]) = EmptyMap

\* The pass created the traffic rule of a Notebook whose header annotation
\* does not parse.
C28_Witness ==
    /\ pc = "status"
    /\ instance # NoObj
    /\ HeaderAnnotation = "not-json"
    /\ LastCall = Call("create", "vs", "", NbName)
    /\ RequestHeaderSet(children["vs"]) = EmptyMap

\* The step of the pass over the readyReplicas block.
StatusStep == pc = "status" /\ pc' # pc

\* The pass created the workload.
WorkloadCreated == \E i \in CallsOn("create", "sts") : calls[i].err = ""

\* C29: after every successful pass the stored status.readyReplicas equals
\* the readyReplicas of the workload as the pass fetched it, which is 0 when
\* the pass created the workload; the readyReplicas block issues a call, a
\* status update, exactly when the fetched value differs from the one of the
\* pass's copy of the Notebook.
C29_ReadyReplicasMirrored ==
    /\ []((PassSucceeded /\ nb # NoObj) =>
            /\ nb.status.readyReplicas = foundStateful.status.readyReplicas
            /\ WorkloadCreated => nb.status.readyReplicas = 0)
    /\ [][StatusStep =>
            IF foundStateful.status.readyReplicas # instance.status.readyReplicas
            THEN /\ Len(calls') = Len(calls) + 1
                 /\ calls'[Len(calls')].op = "statusUpdate"
            ELSE calls' = calls]_vars

\* A successful pass over an existing workload whose readyReplicas block
\* wrote the status: the stored value is the one the pass fetched.
C29_Witness ==
    /\ PassSucceeded
    /\ nb # NoObj
    /\ ~WorkloadCreated
    /\ nb.status.readyReplicas = foundStateful.status.readyReplicas
    /\ \E i \in 2..Len(calls) : /\ calls[i] = Call("statusUpdate", "nb", "", "")
                                 /\ calls[i - 1].kind # "pod"

\* The secret names of the volumes called "secret" of a workload.
SecretVolumeNames(w) ==
    { w.spec.template.spec.volumes[i].secretName :
        i \in { j \in DOMAIN w.spec.template.spec.volumes :
                   w.spec.template.spec.volumes[j].name = "secret" } }

\* Some container of the workload mounts the volume called "secret".
SecretMounted(w) ==
    \E i \in DOMAIN w.spec.template.spec.containers :
        \E j \in DOMAIN w.spec.template.spec.containers[i].volumeMounts :
            w.spec.template.spec.containers[i].volumeMounts[j].name = "secret"

\* C30: for the Notebook nb1 of namespace team-a without stop marker the
\* synthesizers yield a workload nb1 of 1 replica, a route whose TLS host and
\* rule host are both nb1-team-a.<domain>, and a certificate cert-team-a-nb1
\* whose secret name nb1-secret is the secret name of the volume "secret"
\* that the workload's containers mount; the children a pass creates for it
\* are stored under these names while no other actor writes.
C30_NamingScenario ==
    (/\ instance # NoObj
     /\ instance.name = "nb1"
     /\ instance.namespace = "team-a"
     /\ ~StopAnnotationIsSet(instance)) =>
        LET w == generateStatefulSet(instance)
            r == generateIngress(instance)
            c == generateCertificate(instance)
            host == "nb1-team-a." \o CustomDomain
        IN  /\ w.name = "nb1"
            /\ w.spec.replicas.val = 1
            /\ r.spec.tls = << [hosts |-> << host >>] >>
            /\ Len(r.spec.rules) = 1
            /\ r.spec.rules[1].host = host
            /\ c.name = "cert-team-a-nb1"
            /\ c.spec.secretName = "nb1-secret"
            /\ SecretVolumeNames(w) = { c.spec.secretName }
            /\ SecretMounted(w)
            /\ \A k \in {"sts", "ing", "cert"} :
                  (/\ ~changed
                   /\ CallsOn("create", k) # {}
                   /\ \A i \in CallsOn("create", k) : calls[i].err = "")
                  => /\ children[k] # NoObj
                     /\ children[k].name = ChildName(k)

\* A pass over the Notebook without stop marker created the workload, the
\* route and the certificate.
C30_Witness ==
    /\ pc = "status"
    /\ ~changed
    /\ instance # NoObj
    /\ ~StopAnnotationIsSet(instance)
    /\ \A k \in {"sts", "ing", "cert"} :
          /\ CallsOn("create", k) # {}
          /\ \A i \in CallsOn("create", k) : calls[i].err = ""
    /\ children["sts"].spec.replicas.val = 1
    /\ children["ing"].spec.rules[1].host = "nb1-team-a." \o CustomDomain
    /\ children["cert"].name = "cert-team-a-nb1"
    /\ SecretVolumeNames(children["sts"]) = { children["cert"].spec.secretName }

\* Two container states are equal in value: in each of the three fields both
\* are nil or both point to equal values.
SameStateValue(a, b) ==
    \A f \in {"Waiting", "Running", "Terminated"} :
        IF a[f] = Nil \/ b[f] = Nil THEN a[f] = b[f] ELSE a[f].val = b[f].val

\* The pass is at the pod lookup, the primary pod is stored and reports a
\* first container whose state has the value the Notebook's status records.
PodStateAsStored ==
    /\ pc = "pod"
    /\ pod # NoObj
    /\ pod.name = ss.name \o "-0"
    /\ Len(pod.status.containerStatuses) > 0
    /\ SameStateValue(pod.status.containerStatuses[1].state,
                      instance.status.containerState)

\* C31: a pass that finds the primary pod with a first container state equal
\* in value to the Notebook's stored containerState issues no status update
\* and leaves the condition history as it is.
C31_NoStatusWriteWithoutChange ==
    [][(PodStateAsStored /\ pc' # pc /\ calls'[Len(calls')].err = "") =>
          /\ calls'[Len(calls')].op # "statusUpdate"
          /\ instance'.status.conditions = instance.status.conditions]_vars

\* The stored Notebook carries the stop marker.
Marked == nb # NoObj /\ StopAnnotationIsSet(nb)

\* The stored workload has the replica count r.
StoredReplicas(r) ==
    children["sts"] # NoObj /\ children["sts"].spec.replicas.val = r

\* The step of the last block in which the pass decides to cull.
CullingStep ==
    /\ pc = "cull"
    /\ pc' # pc
    /\ podFound
    /\ NotebookNeedsCulling(instance, now)

\* C32: the pass that sets the stop marker leaves the stored workload at the
\* replica count 1 it synced; with further passes coming and neither another
\* writer nor a store error, a marked Notebook's stored workload eventually
\* has replica count 0, and keeps it while the marker is present.
C32_CullingTakesEffectLater ==
    /\ [][CullingStep => /\ Marked'
                         /\ ~Marked
                         /\ StoredReplicas(1)
                         /\ children' = children]_vars
    /\ (Marked ~> StoredReplicas(0))
    /\ [][(Marked /\ StoredReplicas(0) /\ Marked') => StoredReplicas(0)']_vars

\* The controller culled the Notebook and a later pass scaled the stored
\* workload to 0.
C32_Witness ==
    /\ cullingCount = 1
    /\ Marked
    /\ StoredReplicas(0)
    /\ \E i \in CallsOn("update", "sts") : calls[i].err = ""

\* C33: a pass delivered for the key of a stored Notebook, none of whose
\* store calls fails, goes on to the child-sync blocks, also when the store
\* holds an event under the Notebook's name and namespace.
C33_NotebookAlwaysReconciled ==
    [][(/\ ~InPass
        /\ nb # NoObj
        /\ \A i \in DOMAIN calls' : ~Failed(calls'[i])) => pc' = "pvc"]_vars

\* C34: an event the controller re-emitted under a Notebook is rejected by
\* the event predicate for every notification and every outcome of the
\* predicate's lookups, and a pass given it would resolve no Notebook; a
\* pass re-emits at most one event, exactly one when it resolved the
\* Notebook of a child event.
C34_NoAmplification ==
    /\ Len(emitted) <= 1
    /\ (EventPass /\ result.err = "" /\ LastCall = Call("get", "nb", "", ""))
          => Len(emitted) = 1
    /\ \A i \in DOMAIN emitted :
          /\ \A op \in Notifications, f \in {"none", "getPod", "getNotebook"} :
                ~predNBEvents(op, RecordedEvent(emitted[i]), f)
          /\ nbNameFromInvolvedObject(RecordedEvent(emitted[i]).involvedObject,
                                      "none").err # ""

\* A pass re-emitted the event of the primary pod under the Notebook.
C34_Witness ==
    /\ EventPass
    /\ SubjectPodFound
    /\ Len(emitted) = 1
    /\ emitted[1].object = NbName
    /\ ~predNBEvents("create", RecordedEvent(emitted[1]), "none")

\* Every entry of the selector is among the labels.
Selects(selector, labels) ==
    \A k \in DOMAIN selector : k \in DOMAIN labels /\ labels[k] = selector[k]

\* C35: for every Notebook the pod template labels generateStatefulSet
\* synthesizes hold statefulset=<Notebook name> and notebook-name=<Notebook
\* name>, so that the workload's selector and the service's selector match
\* them.
C35_SelectorConsistency ==
    instance # NoObj =>
        LET w == generateStatefulSet(instance)
            l == w.spec.template.labels
        IN  /\ l["statefulset"] = instance.name
            /\ l["notebook-name"] = instance.name
            /\ Selects(w.spec.selector, l)
            /\ Selects(generateService(instance).spec.selector, l)

\* The hosts of a route: those of its TLS entries and of its rules.
RouteHosts(r) ==
    UNION { { r.spec.tls[i].hosts[j] : j \in DOMAIN r.spec.tls[i].hosts } :
              i \in DOMAIN r.spec.tls }
    \cup { r.spec.rules[i].host : i \in DOMAIN r.spec.rules }

\* C36: two Notebooks that differ in name or namespace are given routes that
\* share no host.
C36_RouteHostsUnique ==
    (/\ children["ing"] # NoObj
     /\ ss # NoObj
     /\ << nb.name, nb.namespace >> # << instance.name, instance.namespace >>)
    => RouteHosts(children["ing"]) \cap RouteHosts(ss) = {}

\* The pass found the volume claim in the store.
ClaimFound == \E i \in DOMAIN calls : calls[i] = Call("get", "pvc", "", "")

\* C37: a pass that finds the volume claim issues neither a create nor an
\* update for it, whatever the stored claim holds.
C37_ExistingClaimNeverWritten ==
    ClaimFound => CallsOn("create", "pvc") \cup CallsOn("update", "pvc") = {}

\* A pass found a volume claim that differs from the one it synthesized and
\* went on to the workload without writing to it.
C37_Witness ==
    /\ pc = "sts"
    /\ ClaimFound
    /\ children["pvc"] # NoObj
    /\ children["pvc"] # generatePersistentVolumeClaim(instance)
    /\ children["pvc"].size # generatePersistentVolumeClaim(instance).size
    /\ CallsOn("create", "pvc") \cup CallsOn("update", "pvc") = {}

\* The writes of the pass to the child of a kind.
WritesTo(kind) == CallsOn("create", kind) \cup CallsOn("update", kind)

\* C38: in a pass each child kind is looked up at most once and written at
\* most once, by a create or by an update and never both, and a call that
\* failed is the last call of the pass: nothing is tried again.
C38_OneWritePerKind ==
    /\ \A k \in Kinds :
          /\ Cardinality(CallsOn("get", k)) <= 1
          /\ Cardinality(WritesTo(k)) <= 1
          /\ \A i \in WritesTo(k) : \E j \in CallsOn("get", k) : j < i
    /\ \A i \in DOMAIN calls : Failed(calls[i]) => i = Len(calls)

\* A pass that created one child and updated another, one write each.
C38_Witness ==
    /\ pc = "done"
    /\ \E k \in Kinds : Cardinality(CallsOn("create", k)) = 1
    /\ \E k \in Kinds : Cardinality(CallsOn("update", k)) = 1
    /\ \A k \in Kinds : Cardinality(WritesTo(k)) <= 1

\* The calls of a pass that found neither an event nor a Notebook under the
\* request key.
NothingUnderKey ==
    calls = << Call("get", "event", "NotFound", ""), Call("get", "nb", "NotFound", "") >>

\* C39: a pass that finds neither an event nor a Notebook under the request
\* key has returned after these two lookups, with success and without a
\* requeue request, holding no Notebook and having recorded no event; it
\* issued no create, update or status write.
C39_DeletedNotebookNoOp ==
    NothingUnderKey =>
        /\ pc = "done"
        /\ result = NoResult
        /\ instance = NoObj
        /\ emitted = <<>>
        /\ \A i \in DOMAIN calls : calls[i].op = "get"

\* The Notebook was deleted, its workload went with it, and the pass for
\* its key left the store as it was.
C39_Witness ==
    /\ pc = "done"
    /\ NothingUnderKey
    /\ nb = NoObj
    /\ ext > 0
    /\ children["sts"] = NoObj
    /\ children["pvc"] # NoObj
    /\ result.err = ""
====
